---- MODULE Spec2Model ----
(***************************************************************************)
(* A model of the WhatsApp gateway's control plane: the session registry   *)
(* (internal/wa/client_manager.go), the event router (internal/wa/         *)
(* events.go), the device store adapter (internal/store/postgres.go), the  *)
(* per-account rate limiter (middleware), the webhook sender and the       *)
(* send-message handler (internal/handlers/message.go).                    *)
(*                                                                         *)
(* Every goroutine is a process with a program counter; every mutex is a   *)
(* variable; time is the integer clock `now` (seconds). A critical section *)
(* that touches nothing but the state its lock protects is one step.       *)
(***************************************************************************)
EXTENDS Integers, Sequences, FiniteSets, TLC

\* ------------------------------------------------------------------ bounds

\* Number of request goroutines that call GetOrCreateClient concurrently.
NumThreads == 3
\* Number of request goroutines that use the session manager while the
\* reaper and the shutdown run.
NumMgrThreads == 2
\* Number of ManagedClient objects that can ever be allocated.
MaxClients == 2
\* Last instant of the session-manager clock (seconds).
MaxTime == 1800
\* Number of request goroutines that run while the process shuts down.
NumShutThreads == 1

\* Number of request goroutines that pass the rate limiter concurrently.
NumRateThreads == 2
\* Number of rate-limited requests the clients send.
MaxRequests == 3
\* Number of times the rate limiter's clock moves on.
MaxAdvances == 3
\* Number of request goroutines inside SendMessage concurrently.
NumSendThreads == 2
\* Number of SendMessage requests the clients send.
MaxSendRequests == 3
\* Number of device identities the container generates.
MaxDevices == 4
\* Number of events the upstream library emits.
MaxEvents == 2
MaxJitterMS == 6
MaxJitterCalls == 1
MaxPairEvents == 3
MaxStreamEvents == 3
MaxInboundEvents == 2

Accounts == {"a1", "a2"}
Threads == 1..NumThreads
MgrThreads == 1..NumMgrThreads
McIds == 1..MaxClients

\* Holders of cm.mu that are not request goroutines: the reaper goroutine,
\* the goroutine that shuts down, and nobody.
Reaper == 0
Main == -1
NoOwner == -2

\* GetOrCreateClient's error result (a nil handle and an error).
Err == -1
\* No handle: absent registry entry, or a call that has not returned.
NoMc == 0
\* No device.
NoDev == 0

\* ------------------------------------------------------- program constants

\* time.NewTicker(15 * time.Minute), in seconds.
ReaperPeriod == 900
\* cfg.SessionIdleTTL: a configuration value (SESSION_IDLE_TTL, default 6h);
\* one reaper period here.
SessionIdleTTL == 900
\* time.Minute, the refill window of a rate bucket, in seconds.
Minute == 60
\* 10 * time.Minute: the age at which the limiter's cleanup drops a bucket.
BucketMaxAge == 600
\* cfg.SendJitterMinMS and cfg.SendJitterMaxMS: the defaults, milliseconds.
SendJitterMinMS == 200
SendJitterMaxMS == 600
\* time.Millisecond, in nanoseconds (the unit of time.Duration).
Millisecond == 1000000
\* rl.perMinute: a configuration value (SEND_RATE_PER_MINUTE_DEFAULT,
\* default 15); two here, as in the rate-limit scenario.
PerMinute == 2

VARIABLES
  now,          \* time.Now(), seconds
  clients,      \* cm.clients: account id -> handle, NoMc when absent
  mcs,          \* the heap of ManagedClient objects, by handle
  nextMc,       \* next handle to allocate
  cmWriter,     \* holder of cm.mu's write lock, NoOwner when free
  cmReaders,    \* holders of cm.mu's read lock
  pc,           \* request goroutines: position
  targ,         \* request goroutines: waAccountID argument
  tdev,         \* request goroutines: local `device`
  tret,         \* request goroutines: returned handle
  tresolved,    \* request goroutines: the call ran cm.store.GetDeviceStore
  container,    \* sqlstore container: the persisted devices, in order
  nextDev,      \* next device identity container.NewDevice() generates
  reaper,       \* the cleanupIdleSessions goroutine
  stopChan,     \* cm.stopChan: "open" or "closed"
  main,         \* the goroutine that runs DisconnectAll
  limits,       \* rl.limits: account id -> bucket, NoLimit when absent
  buckets,      \* the heap of accountLimit objects
  nextBucket,   \* next accountLimit to allocate
  rpc,          \* rate-limited requests: position in Limit() / allow()
  racct,        \* rate-limited requests: waAccountID
  rlim,         \* rate-limited requests: local `limit`
  reqs,         \* number of rate-limited requests so far
  admits,       \* history: the instants of the admissions, per account
  windows,      \* history: the instants a bucket was filled, per account
  advances,     \* number of times the clock moved on for the rate limiter
  rbody,        \* rate-limited requests: c.Request.Body (bytes and read position)
  rorig,        \* history: the body bytes the request arrived with
  replies,      \* history: the responses written by Limit()
  records,      \* idempotencyStore: key -> message id of the record
  spc,          \* SendMessage requests: position in the handler
  skey,         \* SendMessage requests: req.IdempotencyKey
  sreq,         \* SendMessage requests: serial number of the request
  sresp,        \* SendMessage requests: resp.ID of the upstream send
  nextReq,      \* next request serial number
  nextMsgId,    \* next message id the upstream assigns
  upstream,     \* history: upstream SendMessage calls initiated, per key
  responses,    \* history: the HTTP responses, in order
  sess,         \* device of the account's session in this process, or NoDev
  firstDev,     \* history: first device GetDeviceStore returned, per account
  lastDev,      \* history: latest device GetDeviceStore returned, per account
  upq,          \* upstream library: events not yet dispatched, per session
  hpc,          \* the session's event handler: position in handleEvent
  hev,          \* the session's event handler: the event it handles
  nextEv,       \* serial number of the next upstream event
  posts,        \* Sender.Send: requests built, httpClient.Do not yet begun
  inflight,     \* Sender.Send: requests posted, no answer yet
  outcomes,     \* history: how each delivery ended
  dispatched,   \* history: events handed to the handler, per session
  initiated,    \* history: events whose POST began, per session
  jitterMinMS,  \* rl.jitterMinMS
  jitterMaxMS,  \* rl.jitterMaxMS
  jitters,      \* history: the delays getJitter returned, in nanoseconds
  wcall,        \* Sender.Send: the call under way (its request), or NoCall
  wlast,        \* history: the last delivery Send finished, or NoDelivery
  qreq,         \* an API request on its way through the middleware chain
  qresp,        \* history: the last API response written, or NoResponse
  emitted,      \* history: the events the upstream emitted, per session
  sunk,         \* history: the envelopes the sink received, per session
  marked        \* history: the read acknowledgements issued, per session

thr == <<pc, targ, tdev, tret, tresolved>>
reg == <<clients, nextMc>>
lock == <<cmWriter, cmReaders>>
store == <<container, nextDev>>
bg == <<reaper, stopChan, main>>

mgrVars == <<mcs, thr, reg, lock, store, bg>>

rateVars == <<limits, buckets, nextBucket, rpc, racct, rlim, reqs, admits,
              windows, advances, rbody, rorig, replies>>

sendVars == <<records, spc, skey, sreq, sresp, nextReq, nextMsgId, upstream,
              responses>>

devVars == <<sess, firstDev, lastDev>>

hookVars == <<upq, hpc, hev, nextEv, posts, inflight, outcomes, dispatched,
              initiated>>

cfgVars == <<jitterMinMS, jitterMaxMS, jitters>>

sndVars == <<wcall, wlast>>

\* The limiter's settings, the webhook sender and the middleware chain: no
\* operation of the components above touches them.
ridVars == <<qreq, qresp>>

pairVars == <<emitted, sunk, marked>>

otherVars == <<cfgVars, sndVars, ridVars, pairVars>>

\* The variables of the other components (no operation of the session
\* manager touches them).
nonMgrVars == <<rateVars, sendVars, devVars, hookVars, otherVars>>
\* The same for the rate limiter, the send handler, the device store and
\* the event router.
nonRateVars == <<mgrVars, sendVars, devVars, hookVars, otherVars>>
nonSendVars == <<mgrVars, rateVars, devVars, hookVars, otherVars>>
nonDevVars == <<mcs, thr, reg, lock, bg, rateVars, sendVars, hookVars,
               otherVars>>
nonHookVars == <<thr, reg, lock, store, bg, rateVars, sendVars, devVars,
                otherVars>>

vars == <<now, mgrVars, rateVars, sendVars, devVars, hookVars, otherVars>>

\* No event: the handler is not running.
NoEvent == [id |-> 0, kind |-> "", ack |-> FALSE]

\* A handle that was never allocated.
BlankMc == [acct |-> "", la |-> 0, conn |-> FALSE, live |-> FALSE,
            dev |-> NoDev, handlers |-> 0]

Allocated == 1..(nextMc - 1)

\* ------------------------------------------------------------ device store

\* container.NewDevice(): a device with freshly generated credentials; it is
\* not persisted until pairing saves it.
NewDevice == nextDev

\* PostgresStore.GetDeviceStore: no persisted device -> a new device;
\* otherwise container.GetFirstDevice(), whatever the account.
GetDeviceStore(waAccountID) ==
  IF Len(container) = 0 THEN NewDevice ELSE container[1]

\* The device counter after GetDeviceStore: NewDevice() used one identity.
AfterGetDeviceStore == IF Len(container) = 0 THEN nextDev + 1 ELSE nextDev

\* ------------------------------------------------- ClientManager: lock, ctor

\* NewClientManager: the empty registry, over an empty container.
InitRegistry ==
  /\ clients = [a \in Accounts |-> NoMc]
  /\ mcs = [m \in McIds |-> BlankMc]
  /\ nextMc = 1
  /\ container = <<>>
  /\ nextDev = 1

\* NewClientManager: no lock held, reaper goroutine started, no request.
InitGoroutines ==
  /\ now = 0
  /\ cmWriter = NoOwner
  /\ cmReaders = {}
  /\ pc = [t \in Threads |-> "idle"]
  /\ targ = [t \in Threads |-> ""]
  /\ tdev = [t \in Threads |-> NoDev]
  /\ tret = [t \in Threads |-> NoMc]
  /\ tresolved = [t \in Threads |-> FALSE]
  /\ reaper = [pc |-> "wait", tick |-> FALSE, now |-> 0, todo |-> {},
               cur |-> "", count |-> 0]
  /\ stopChan = "open"
  /\ main = "running"

InitMgr == InitRegistry /\ InitGoroutines

\* NewRateLimiter: no buckets.
InitRate ==
  /\ limits = [a \in Accounts |-> 0]
  /\ buckets = [b \in 1..MaxRequests |-> [tokens |-> 0, lastRefill |-> 0]]
  /\ nextBucket = 1
  /\ rpc = [t \in 1..NumRateThreads |-> "idle"]
  /\ racct = [t \in 1..NumRateThreads |-> ""]
  /\ rlim = [t \in 1..NumRateThreads |-> 0]
  /\ reqs = 0
  /\ admits = [a \in Accounts |-> <<>>]
  /\ windows = [a \in Accounts |-> {}]
  /\ advances = 0
  /\ rbody = [t \in 1..NumRateThreads |-> [data |-> <<>>, pos |-> 0]]
  /\ rorig = [t \in 1..NumRateThreads |-> <<>>]
  /\ replies = {}

\* The idempotency keys of the requests; "" is a request without a key.
Keys == {"", "k1", "k2"}

\* NewMessageHandler / NewIdempotencyStore: no records, no request.
InitSend ==
  /\ records = << >>
  /\ spc = [t \in 1..NumSendThreads |-> "idle"]
  /\ skey = [t \in 1..NumSendThreads |-> ""]
  /\ sreq = [t \in 1..NumSendThreads |-> 0]
  /\ sresp = [t \in 1..NumSendThreads |-> 0]
  /\ nextReq = 1
  /\ nextMsgId = 1
  /\ upstream = [k \in Keys |-> 0]
  /\ responses = << >>

\* No session holds a device; GetDeviceStore was never called.
InitDev ==
  /\ sess = [a \in Accounts |-> NoDev]
  /\ firstDev = [a \in Accounts |-> NoDev]
  /\ lastDev = [a \in Accounts |-> NoDev]

\* The event router is idle: no event is pending, no delivery is under way.
InitHook ==
  /\ upq = [a \in Accounts |-> << >>]
  /\ hpc = [a \in Accounts |-> "idle"]
  /\ hev = [a \in Accounts |-> NoEvent]
  /\ nextEv = 1
  /\ posts = {}
  /\ inflight = {}
  /\ outcomes = {}
  /\ dispatched = [a \in Accounts |-> << >>]
  /\ initiated = [a \in Accounts |-> << >>]

\* No Send call is under way and none has finished.
NoCall == [pc |-> "none"]
NoDelivery == [answer |-> "none"]

\* webhooks.NewSender: the sender has delivered nothing yet.
InitSender ==
  /\ wcall = NoCall
  /\ wlast = NoDelivery

\* No API request is in the middleware chain and none was answered.
NoRequest == [pc |-> "none"]
NoResponse == [status |-> 0]

\* The router as main builds it: no request yet.
InitChain ==
  /\ qreq = NoRequest
  /\ qresp = NoResponse

\* The upstream has emitted nothing and the sink has received nothing.
InitSink ==
  /\ emitted = [a \in Accounts |-> << >>]
  /\ sunk = [a \in Accounts |-> << >>]
  /\ marked = [a \in Accounts |-> << >>]

\* NewRateLimiter(..., cfg.SendJitterMinMS, cfg.SendJitterMaxMS).
InitConfig ==
  /\ jitterMinMS = SendJitterMinMS
  /\ jitterMaxMS = SendJitterMaxMS
  /\ jitters = <<>>

\* The parts of the process the components above do not touch.
InitOther == InitConfig /\ InitSender /\ InitChain /\ InitSink

\* The process after startup (cmd/go-wa/main.go).
Init ==
  /\ InitMgr /\ InitRate /\ InitSend /\ InitDev /\ InitHook /\ InitOther

CanRLock == cmWriter = NoOwner
CanLock == cmWriter = NoOwner /\ cmReaders = {}

\* main.go: the HTTP server accepts requests from ListenAndServe until
\* main calls srv.Shutdown.
Serving == main \in {"running", "wait", "done"}

\* A stamp that writes the zero time instead of the current time.
StampZero(m) == [mcs EXCEPT ![m].la = 0]

\* mc.mu.Lock(); mc.LastActivity = time.Now(); mc.mu.Unlock()
Stamp(m) == [mcs EXCEPT ![m].la = now]

\* ------------------------------------------ ClientManager.GetOrCreateClient

\* GetOrCreateClient(waAccountID), lines 54-62: the lookup under the read
\* lock. On a hit the goroutine keeps the read lock for the stamp; on a miss
\* it releases it at once.
GOC_RLock(t, a) ==
  /\ pc[t] = "idle"
  /\ Serving
  /\ CanRLock
  /\ targ' = [targ EXCEPT ![t] = a]
  /\ IF clients[a] # NoMc
       THEN /\ cmReaders' = cmReaders \cup {t}
            /\ pc' = [pc EXCEPT ![t] = "goc_hit"]
       ELSE /\ cmReaders' = cmReaders
            /\ pc' = [pc EXCEPT ![t] = "goc_lock"]
  /\ UNCHANGED <<now, mcs, tdev, tret, tresolved, reg, cmWriter, store, bg>>
  /\ UNCHANGED nonMgrVars

\* Lines 56-60: stamp the hit, release the read lock, return the handle.
GOC_Hit(t) ==
  /\ pc[t] = "goc_hit"
  /\ mcs' = Stamp(clients[targ[t]])
  /\ cmReaders' = cmReaders \ {t}
  /\ tret' = [tret EXCEPT ![t] = clients[targ[t]]]
  /\ pc' = [pc EXCEPT ![t] = "done"]
  /\ UNCHANGED <<now, targ, tdev, tresolved, reg, cmWriter, store, bg>>
  /\ UNCHANGED nonMgrVars

\* GetOrCreateClient without the second lookup: the write lock is taken and
\* creation goes ahead whatever the registry holds by now.
GOC_LockNoRecheck(t) ==
  /\ pc[t] = "goc_lock"
  /\ CanLock
  /\ nextMc <= MaxClients
  /\ cmWriter' = t
  /\ pc' = [pc EXCEPT ![t] = "goc_resolve"]
  /\ UNCHANGED <<now, mcs, targ, tdev, tret, tresolved, reg, cmReaders,
                 store, bg>>
  /\ UNCHANGED nonMgrVars

\* Lines 64-73: take the write lock and look again. A hit is stamped and
\* returned (the deferred Unlock runs); a miss goes on to create, holding
\* the lock.
GOC_Lock(t) ==
  /\ pc[t] = "goc_lock"
  /\ CanLock
  /\ IF clients[targ[t]] # NoMc
       THEN /\ mcs' = Stamp(clients[targ[t]])
            /\ tret' = [tret EXCEPT ![t] = clients[targ[t]]]
            /\ cmWriter' = NoOwner
            /\ pc' = [pc EXCEPT ![t] = "done"]
       ELSE /\ nextMc <= MaxClients
            /\ cmWriter' = t
            /\ pc' = [pc EXCEPT ![t] = "goc_resolve"]
            /\ UNCHANGED <<mcs, tret>>
  /\ UNCHANGED <<now, targ, tdev, tresolved, reg, cmReaders, store, bg>>
  /\ UNCHANGED nonMgrVars

\* GetOrCreateClient keeping the half-made session when device resolution
\* fails: the entry is inserted and its handler registered before the error
\* is returned.
GOC_ResolveKeepsEntry(t) ==
  /\ pc[t] = "goc_resolve"
  /\ tresolved' = [tresolved EXCEPT ![t] = TRUE]
  /\ \E ok \in BOOLEAN :
       IF ok
         THEN /\ tdev' = [tdev EXCEPT ![t] = GetDeviceStore(targ[t])]
              /\ nextDev' = AfterGetDeviceStore
              /\ pc' = [pc EXCEPT ![t] = "goc_insert"]
              /\ UNCHANGED <<tret, cmWriter, mcs, reg>>
         ELSE /\ tret' = [tret EXCEPT ![t] = Err]
              /\ cmWriter' = NoOwner
              /\ pc' = [pc EXCEPT ![t] = "done"]
              /\ mcs' = [mcs EXCEPT ![nextMc] =
                           [acct |-> targ[t], la |-> now, conn |-> FALSE,
                            live |-> FALSE, dev |-> NoDev, handlers |-> 1]]
              /\ clients' = [clients EXCEPT ![targ[t]] = nextMc]
              /\ nextMc' = nextMc + 1
              /\ UNCHANGED <<tdev, nextDev>>
  /\ UNCHANGED <<now, targ, cmReaders, container, bg>>
  /\ UNCHANGED nonMgrVars

\* Lines 76-79: device, err := cm.store.GetDeviceStore(waAccountID). The
\* store may fail (a database error): the call then returns (nil, err) and
\* the deferred Unlock runs.
GOC_Resolve(t) ==
  /\ pc[t] = "goc_resolve"
  /\ tresolved' = [tresolved EXCEPT ![t] = TRUE]
  /\ \E ok \in BOOLEAN :
       IF ok
         THEN /\ tdev' = [tdev EXCEPT ![t] = GetDeviceStore(targ[t])]
              /\ nextDev' = AfterGetDeviceStore
              /\ pc' = [pc EXCEPT ![t] = "goc_insert"]
              /\ UNCHANGED <<tret, cmWriter>>
         ELSE /\ tret' = [tret EXCEPT ![t] = Err]
              /\ cmWriter' = NoOwner
              /\ pc' = [pc EXCEPT ![t] = "done"]
              /\ UNCHANGED <<tdev, nextDev>>
  /\ UNCHANGED <<now, mcs, targ, reg, cmReaders, container, bg>>
  /\ UNCHANGED nonMgrVars

\* GetOrCreateClient inserting the new session under the key of the last
\* session it allocated instead of its own account id.
GOC_InsertMisfiled(t) ==
  /\ pc[t] = "goc_insert"
  /\ LET key == IF nextMc = 1 THEN targ[t] ELSE mcs[nextMc - 1].acct IN
       clients' = [clients EXCEPT ![key] = nextMc]
  /\ mcs' = [mcs EXCEPT ![nextMc] =
               [acct |-> targ[t], la |-> now, conn |-> FALSE, live |-> FALSE,
                dev |-> tdev[t], handlers |-> 1]]
  /\ nextMc' = nextMc + 1
  /\ tret' = [tret EXCEPT ![t] = nextMc]
  /\ tdev' = [tdev EXCEPT ![t] = NoDev]
  /\ cmWriter' = NoOwner
  /\ pc' = [pc EXCEPT ![t] = "done"]
  /\ UNCHANGED <<now, targ, tresolved, cmReaders, store, bg>>
  /\ UNCHANGED nonMgrVars

\* Lines 81-100: construct the client and the ManagedClient, register the
\* event handler (SetupEventHandlers), insert, unlock, return.
GOC_Insert(t) ==
  /\ pc[t] = "goc_insert"
  /\ mcs' = [mcs EXCEPT ![nextMc] =
               [acct |-> targ[t], la |-> now, conn |-> FALSE, live |-> FALSE,
                dev |-> tdev[t], handlers |-> 1]]
  /\ clients' = [clients EXCEPT ![targ[t]] = nextMc]
  /\ nextMc' = nextMc + 1
  /\ tret' = [tret EXCEPT ![t] = nextMc]
  /\ tdev' = [tdev EXCEPT ![t] = NoDev]
  /\ cmWriter' = NoOwner
  /\ pc' = [pc EXCEPT ![t] = "done"]
  /\ UNCHANGED <<now, targ, tresolved, cmReaders, store, bg>>
  /\ UNCHANGED nonMgrVars

GetOrCreateClient(t) ==
  \/ \E a \in Accounts : GOC_RLock(t, a)
  \/ GOC_Hit(t)
  \/ GOC_Lock(t)
  \/ GOC_Resolve(t)
  \/ GOC_Insert(t)

\* ---------------------------------------------------- concurrent creation

\* N request goroutines, each making one GetOrCreateClient call, from an
\* empty registry.
NextCreate == \E t \in Threads : GetOrCreateClient(t)

SpecCreate == Init /\ [][NextCreate]_vars

\* Handles ever constructed for an account.
Made(a) == {m \in Allocated : mcs[m].acct = a}
\* Goroutines whose call for an account has returned.
Returned(a) == {t \in Threads : targ[t] = a /\ pc[t] = "done"}
\* Goroutines that have called for an account.
Callers(a) == {t \in Threads : targ[t] = a}

\* C1: concurrent GetOrCreateClient(A) calls on a registry without A
\* construct at most one ManagedClient for A, with one registered event
\* handler and stored under A; every call that returns a handle returns that
\* one; and when all N calls have returned and the device store never
\* failed, exactly one client was constructed and exactly one of the calls
\* resolved a device.
C1_CreationIdempotent ==
  \A a \in Accounts :
    /\ Cardinality(Made(a)) <= 1
    /\ \A m \in Made(a) : clients[a] = m /\ mcs[m].handlers = 1
    /\ \A t \in Returned(a) : tret[t] = Err \/ tret[t] \in Made(a)
    /\ ( /\ Callers(a) # {}
         /\ Callers(a) = Returned(a)
         /\ \A t \in Returned(a) : tret[t] # Err )
       => /\ Cardinality(Made(a)) = 1
          /\ Cardinality({t \in Callers(a) : tresolved[t]}) = 1

\* All N goroutines called for the same account and returned its handle.
C1_Witness ==
  /\ \A t \in Threads :
       pc[t] = "done" /\ targ[t] = "a1" /\ tret[t] = clients["a1"]
  /\ clients["a1"] # NoMc

\* ------------------------------------------------ the upstream client

\* mc.Client.Disconnect(): the client closes its stream.
ClientDisconnect(ms, m) == [ms EXCEPT ![m].live = FALSE]

\* handleEvent leaving the session marked connected when the stream is
\* replaced.
HandleEventKeepsReplaced(m, kind) ==
  CASE kind = "Message"        -> [mcs EXCEPT ![m].la = now]
    [] kind = "Connected"      -> [mcs EXCEPT ![m].conn = TRUE, ![m].la = now]
    [] kind = "Disconnected"   -> [mcs EXCEPT ![m].conn = FALSE]
    [] kind = "LoggedOut"      -> [mcs EXCEPT ![m].conn = FALSE]
    [] OTHER                   -> mcs

\* handleEvent: the session-state effect of one upstream event on the
\* ManagedClient its handler closure captured (the webhook it then sends
\* does not touch the session).
HandleEvent(m, kind) ==
  CASE kind = "Message"        -> [mcs EXCEPT ![m].la = now]
    [] kind = "Connected"      -> [mcs EXCEPT ![m].conn = TRUE, ![m].la = now]
    [] kind = "Disconnected"   -> [mcs EXCEPT ![m].conn = FALSE]
    [] kind = "LoggedOut"      -> [mcs EXCEPT ![m].conn = FALSE]
    [] kind = "StreamReplaced" -> [mcs EXCEPT ![m].conn = FALSE]
    [] OTHER                   -> mcs

StateEvents == {"Message", "Connected", "Disconnected", "LoggedOut",
                "StreamReplaced"}

\* A background goroutine of a session handler calls mc.Client.Connect() on
\* a handle it got from GetOrCreateClient: the stream comes up.
ClientConnect(m) ==
  /\ m \in Allocated
  /\ ~mcs[m].live
  /\ mcs' = [mcs EXCEPT ![m].live = TRUE]
  /\ UNCHANGED <<now, thr, reg, lock, store, bg>>
  /\ UNCHANGED nonMgrVars

\* The upstream library delivers an event to the handler registered by
\* SetupEventHandlers, which runs handleEvent. Connected follows a stream
\* that came up, messages arrive on a live stream, and Disconnected,
\* LoggedOut and StreamReplaced report a stream the remote side closed.
OnEvent(m, kind) ==
  /\ m \in Allocated
  /\ mcs[m].handlers > 0
  /\ mcs[m].live
  /\ kind = "Connected" => ~mcs[m].conn
  /\ mcs' = IF kind \in {"Disconnected", "LoggedOut", "StreamReplaced"}
              THEN ClientDisconnect(HandleEvent(m, kind), m)
              ELSE HandleEvent(m, kind)
  /\ UNCHANGED <<now, thr, reg, lock, store, bg>>
  /\ UNCHANGED nonMgrVars

\* ------------------------------------------------ ClientManager.RemoveClient

\* RemoveClient(waAccountID), lines 104-115, under the write lock: disconnect
\* the client if the session is marked connected (mc.Connected itself is
\* left as it is) and delete the entry. The call returns nothing.
RM_Body(t, a) ==
  /\ pc[t] = "idle"
  /\ Serving
  /\ CanLock
  /\ LET m == clients[a] IN
       IF m # NoMc
         THEN /\ mcs' = IF mcs[m].conn THEN ClientDisconnect(mcs, m) ELSE mcs
              /\ clients' = [clients EXCEPT ![a] = NoMc]
         ELSE UNCHANGED <<mcs, clients>>
  /\ UNCHANGED <<now, thr, nextMc, lock, store, bg>>
  /\ UNCHANGED nonMgrVars

RemoveClient(t) == \E a \in Accounts : RM_Body(t, a)

\* The request is answered; the goroutine serves the next one.
Return(t) ==
  /\ pc[t] = "done"
  /\ pc' = [pc EXCEPT ![t] = "idle"]
  /\ targ' = [targ EXCEPT ![t] = ""]
  /\ tret' = [tret EXCEPT ![t] = NoMc]
  /\ tresolved' = [tresolved EXCEPT ![t] = FALSE]
  /\ UNCHANGED <<now, mcs, tdev, reg, lock, store, bg>>
  /\ UNCHANGED nonMgrVars

\* ------------------------------------------------------------ the idle reaper

Registered == {a \in Accounts : clients[a] # NoMc}

\* The idle test with the comparison turned round: After for Before.
IsIdleAfter(lastActivity, idleThreshold) == lastActivity > idleThreshold

\* mc.LastActivity.Before(idleThreshold)
IsIdle(lastActivity, idleThreshold) == lastActivity < idleThreshold

\* A reaper period passes: the clock advances and the ticker puts a tick in
\* its channel (capacity one).
Tick ==
  /\ now + ReaperPeriod <= MaxTime
  /\ now' = now + ReaperPeriod
  /\ reaper' = [reaper EXCEPT !.tick = TRUE]
  /\ UNCHANGED <<mcs, thr, reg, lock, store, stopChan, main>>
  /\ UNCHANGED nonMgrVars

\* cleanupIdleSessions, case <-ticker.C: the goroutine goes to performCleanup.
R_Tick ==
  /\ reaper.pc = "wait"
  /\ reaper.tick
  /\ reaper' = [reaper EXCEPT !.tick = FALSE, !.pc = "lock"]
  /\ UNCHANGED <<now, mcs, thr, reg, lock, store, stopChan, main>>
  /\ UNCHANGED nonMgrVars

\* cleanupIdleSessions, case <-cm.stopChan: the goroutine returns (wg.Done).
R_Stop ==
  /\ reaper.pc = "wait"
  /\ stopChan = "closed"
  /\ reaper' = [reaper EXCEPT !.pc = "exited"]
  /\ UNCHANGED <<now, mcs, thr, reg, lock, store, stopChan, main>>
  /\ UNCHANGED nonMgrVars

\* performCleanup, lines 137-144: lock the registry, read the clock, start
\* ranging over the map.
R_Lock ==
  /\ reaper.pc = "lock"
  /\ CanLock
  /\ cmWriter' = Reaper
  /\ reaper' = [reaper EXCEPT !.pc = "scan", !.now = now, !.todo = Registered,
                              !.count = 0]
  /\ UNCHANGED <<now, mcs, thr, reg, cmReaders, store, stopChan, main>>
  /\ UNCHANGED nonMgrVars

\* Lines 145-150: read isIdle and isConnected of one entry under mc.mu's
\* read lock.
R_Read(a) ==
  /\ reaper.pc = "scan"
  /\ a \in reaper.todo
  /\ LET m == clients[a]
         idleThreshold == reaper.now - SessionIdleTTL
     IN IF IsIdle(mcs[m].la, idleThreshold) /\ mcs[m].conn
          THEN reaper' = [reaper EXCEPT !.pc = "disc", !.cur = a]
          ELSE reaper' = [reaper EXCEPT !.todo = @ \ {a}]
  /\ UNCHANGED <<now, mcs, thr, reg, lock, store, stopChan, main>>
  /\ UNCHANGED nonMgrVars

\* performCleanup deleting the entry of the session it disconnects.
R_DiscDeletes ==
  /\ reaper.pc = "disc"
  /\ LET m == clients[reaper.cur] IN
       mcs' = [ClientDisconnect(mcs, m) EXCEPT ![m].conn = FALSE]
  /\ clients' = [clients EXCEPT ![reaper.cur] = NoMc]
  /\ reaper' = [reaper EXCEPT !.pc = "scan", !.todo = @ \ {reaper.cur},
                              !.cur = "", !.count = @ + 1]
  /\ UNCHANGED <<now, thr, nextMc, lock, store, stopChan, main>>
  /\ UNCHANGED nonMgrVars

\* Lines 156-161: disconnect the idle session and mark it disconnected.
R_Disc ==
  /\ reaper.pc = "disc"
  /\ LET m == clients[reaper.cur] IN
       mcs' = [ClientDisconnect(mcs, m) EXCEPT ![m].conn = FALSE]
  /\ reaper' = [reaper EXCEPT !.pc = "scan", !.todo = @ \ {reaper.cur},
                              !.cur = "", !.count = @ + 1]
  /\ UNCHANGED <<now, thr, reg, lock, store, stopChan, main>>
  /\ UNCHANGED nonMgrVars

\* The range is over: the deferred cm.mu.Unlock() runs, the goroutine goes
\* back to its select.
R_Unlock ==
  /\ reaper.pc = "scan"
  /\ reaper.todo = {}
  /\ cmWriter' = NoOwner
  /\ reaper' = [reaper EXCEPT !.pc = "wait", !.now = 0, !.count = 0]
  /\ UNCHANGED <<now, mcs, thr, reg, cmReaders, store, stopChan, main>>
  /\ UNCHANGED nonMgrVars

performCleanup ==
  \/ R_Lock
  \/ \E a \in Accounts : R_Read(a)
  \/ R_Disc
  \/ R_Unlock

cleanupIdleSessions ==
  \/ R_Tick
  \/ R_Stop
  \/ performCleanup

\* ------------------------------------------------ ClientManager.DisconnectAll

\* if mc.Connected { mc.Client.Disconnect(); mc.Connected = false }, for
\* every entry of the registry.
DisconnectEach(regd) ==
  [m \in McIds |->
     IF (\E a \in regd : clients[a] = m) /\ mcs[m].conn
       THEN [mcs[m] EXCEPT !.conn = FALSE, !.live = FALSE]
       ELSE mcs[m]]

\* Lines 174-191: lock the registry, disconnect every connected session,
\* close(cm.stopChan).
DA_Loop ==
  /\ main = "running"
  /\ CanLock
  /\ cmWriter' = Main
  /\ mcs' = DisconnectEach(Registered)
  /\ stopChan' = "closed"
  /\ main' = "wait"
  /\ UNCHANGED <<now, thr, reg, cmReaders, store, reaper>>
  /\ UNCHANGED nonMgrVars

\* Line 192: cm.wg.Wait() returns once the reaper goroutine has returned;
\* then the deferred Unlock runs.
DA_Wait ==
  /\ main = "wait"
  /\ reaper.pc = "exited"
  /\ cmWriter' = NoOwner
  /\ main' = "done"
  /\ UNCHANGED <<now, mcs, thr, reg, cmReaders, store, reaper, stopChan>>
  /\ UNCHANGED nonMgrVars

DisconnectAll ==
  \/ DA_Loop
  \/ DA_Wait

\* -------------------------------------------------- the session manager

Next ==
  \/ \E t \in MgrThreads : GetOrCreateClient(t) \/ RemoveClient(t) \/ Return(t)
  \/ \E m \in McIds : ClientConnect(m)
  \/ \E m \in McIds, kind \in StateEvents : OnEvent(m, kind)
  \/ Tick
  \/ cleanupIdleSessions
  \/ DisconnectAll

Spec == Init /\ [][Next]_vars

\* C2: in every reachable state the registry holds at most one ManagedClient
\* for each account id: every entry is an allocated handle, the entry stored
\* under key A has WaAccountID = A, and no handle is stored under two keys.
C2_RegistryUnique ==
  /\ \A a \in Registered :
       clients[a] \in Allocated /\ mcs[clients[a]].acct = a
  /\ \A a \in Accounts :
       Cardinality({k \in Registered : mcs[clients[k]].acct = a}) <= 1
  /\ \A a, b \in Registered : clients[a] = clients[b] => a = b

\* a1 is registered with its second ManagedClient (the first was removed),
\* and the shutdown has run.
C2_Witness ==
  /\ "a1" \in Registered
  /\ \E m \in Allocated : mcs[m].acct = "a1" /\ clients["a1"] # m
  /\ main = "done"

\* performCleanup has visited every entry and is about to unlock.
PassOver == reaper.pc = "scan" /\ reaper.todo = {}

\* C8: a registered session that is connected with last_activity <= now -
\* session_idle_ttl (boundary included) when the reaper ticks is not
\* connected once that reaper pass is over.
C8_IdleReaped ==
  PassOver =>
    \A a \in Registered :
      mcs[clients[a]].la <= reaper.now - SessionIdleTTL
        => ~mcs[clients[a]].conn

\* The same with the boundary left out: last_activity < now - ttl.
C8_StrictlyIdleReaped ==
  PassOver =>
    \A a \in Registered :
      mcs[clients[a]].la < reaper.now - SessionIdleTTL
        => ~mcs[clients[a]].conn

\* ------------------------------------------------------------ shutdown

ShutThreads == 1..NumShutThreads

\* A further call of DisconnectAll after the first has returned, lines
\* 174-192: lock, disconnect the connected sessions, close(cm.stopChan).
\* Closing a closed channel panics; the deferred Unlock runs and the panic
\* ends the process.
DA_Second ==
  /\ main = "done"
  /\ CanLock
  /\ mcs' = DisconnectEach(Registered)
  /\ main' = IF stopChan = "closed" THEN "panic" ELSE "wait"
  /\ cmWriter' = IF stopChan = "closed" THEN NoOwner ELSE Main
  /\ stopChan' = "closed"
  /\ UNCHANGED <<now, thr, reg, cmReaders, store, reaper>>
  /\ UNCHANGED nonMgrVars

\* main.go lines 209-214: srv.Shutdown(ctx) closes the listener; no new
\* request is accepted.
Srv_Shutdown ==
  /\ main = "done"
  /\ main' = "drain"
  /\ UNCHANGED <<now, mcs, thr, reg, lock, store, reaper, stopChan>>
  /\ UNCHANGED nonMgrVars

\* srv.Shutdown returns when the requests under way have ended or when the
\* 30 s deadline of ctx has passed.
Srv_Drained ==
  /\ main = "drain"
  /\ main' = "shut"
  /\ UNCHANGED <<now, mcs, thr, reg, lock, store, reaper, stopChan>>
  /\ UNCHANGED nonMgrVars

\* main returns: the deferred dbStore.Close() runs (line 54) and the
\* process exits.
Main_Exit ==
  /\ main = "shut"
  /\ main' = "exited"
  /\ UNCHANGED <<now, mcs, thr, reg, lock, store, reaper, stopChan>>
  /\ UNCHANGED nonMgrVars

\* The device store is open until the deferred Close of main has run.
StoreOpen == main # "exited"

\* The process has neither exited nor panicked.
Alive == main \notin {"exited", "panic"}

\* The process, from startup through the shutdown sequence of main; it
\* takes no step once it has exited or panicked.
NextShutdown ==
  \/ \E t \in ShutThreads :
       Alive /\ (GetOrCreateClient(t) \/ RemoveClient(t) \/ Return(t))
  \/ \E m \in McIds : Alive /\ ClientConnect(m)
  \/ \E m \in McIds, kind \in StateEvents : Alive /\ OnEvent(m, kind)
  \/ Alive /\ Tick
  \/ Alive /\ cleanupIdleSessions
  \/ DisconnectAll
  \/ DA_Second
  \/ Srv_Shutdown
  \/ Srv_Drained
  \/ Main_Exit

SpecShutdown == Init /\ [][NextShutdown]_vars

\* C11: on shutdown the HTTP server stops first, then DisconnectAll runs,
\* then the store is closed: DisconnectAll starts only when the server no
\* longer accepts requests, and no request enters the session manager once
\* DisconnectAll has started.
C11_ShutdownOrder ==
  [][ /\ DA_Loop => ~Serving
      /\ \A t \in ShutThreads, a \in Accounts :
           (GOC_RLock(t, a) \/ RM_Body(t, a)) => main = "running" ]_vars

\* C12: DisconnectAll always returns: while it waits for the reaper
\* (wg.Wait) the reaper is never blocked on the registry lock that
\* DisconnectAll holds.
C12_DisconnectAllReturns ==
  ~(main = "wait" /\ cmWriter = Main /\ reaper.pc = "lock")

\* C13: a second DisconnectAll after the first has returned completes
\* normally.
C13_SecondCallCompletes == main # "panic"

\* C14: when DisconnectAll returns the reaper has halted and no registered
\* session is connected or has a live client.
C14_AllDisconnected ==
  [][ DA_Wait =>
        /\ reaper'.pc = "exited"
        /\ \A a \in Accounts :
             clients'[a] # NoMc =>
               /\ ~mcs'[clients'[a]].conn
               /\ ~mcs'[clients'[a]].live ]_vars

\* The registry under requests and upstream events alone.
NextRemove ==
  \/ \E t \in MgrThreads : GetOrCreateClient(t) \/ RemoveClient(t) \/ Return(t)
  \/ \E m \in McIds : ClientConnect(m)
  \/ \E m \in McIds, kind \in StateEvents : OnEvent(m, kind)

SpecRemove == Init /\ [][NextRemove]_vars

\* C15: RemoveClient(A) on a registered account disconnects the session's
\* client and deletes A's entry; on an account that is not registered (again,
\* or never) it changes nothing; the entries and sessions of other accounts
\* are left as they are.
C15_RemoveIdempotent ==
  [][ \A t \in MgrThreads, a \in Accounts :
        RM_Body(t, a) =>
          /\ clients'[a] = NoMc
          /\ \A b \in Accounts \ {a} : clients'[b] = clients[b]
          /\ \A m \in McIds : m # clients[a] => mcs'[m] = mcs[m]
          /\ clients[a] = NoMc => (mcs' = mcs /\ clients' = clients)
          /\ clients[a] # NoMc => ~mcs'[clients[a]].live ]_vars

\* C27: when device resolution fails in GetOrCreateClient(A), the call
\* returns an error and releases the lock, no entry is inserted for A (A is
\* still not registered, so the next call resolves again), no session is
\* constructed and no event handler is registered.
C27_FailedCreateLeavesRegistry ==
  [][ \A t \in MgrThreads :
        (GOC_Resolve(t) /\ tret'[t] = Err) =>
          /\ pc'[t] = "done"
          /\ cmWriter' = NoOwner
          /\ clients' = clients
          /\ clients'[targ[t]] = NoMc
          /\ nextMc' = nextMc
          /\ mcs' = mcs
          /\ \A m \in McIds \ Allocated : mcs'[m].handlers = 0 ]_vars

\* A call for an account failed, and another call for the same account has
\* since created its session.
C27_Witness ==
  \E t1, t2 \in MgrThreads :
    /\ pc[t1] = "done" /\ tret[t1] = Err
    /\ pc[t2] = "done" /\ targ[t2] = targ[t1]
    /\ tret[t2] \in Allocated
    /\ clients[targ[t1]] = tret[t2]
    /\ mcs[tret[t2]].handlers = 1

\* C28: a step of the idle reaper neither inserts nor deletes a registry
\* entry and constructs no session; the only session it writes is the
\* registered one its pass found idle and connected, which it marks not
\* connected and whose client it disconnects, leaving the rest of the
\* session as it was; and a GetOrCreateClient call that finds an entry
\* returns the session the entry names.
C28_ReaperFrame ==
  [][ /\ cleanupIdleSessions =>
           /\ clients' = clients
           /\ nextMc' = nextMc
           /\ \A m \in McIds :
                mcs'[m] # mcs[m] =>
                  /\ reaper.cur \in Registered
                  /\ m = clients[reaper.cur]
                  /\ mcs'[m] = [mcs[m] EXCEPT !.conn = FALSE, !.live = FALSE]
      /\ \A a \in Accounts :
           (R_Read(a) /\ reaper'.pc = "disc") =>
             /\ mcs[clients[a]].conn
             /\ IsIdle(mcs[clients[a]].la, reaper.now - SessionIdleTTL)
      /\ \A t \in ShutThreads :
           (GOC_Hit(t) \/ (GOC_Lock(t) /\ pc'[t] = "done")) =>
             tret'[t] = clients[targ[t]]
    ]_vars

\* The reaper's pass has disconnected a session; the session's entry is
\* still in the registry and the session is marked not connected.
C28_Witness ==
  /\ reaper.pc = "scan"
  /\ reaper.count > 0
  /\ \E a \in Registered \ reaper.todo :
       /\ ~mcs[clients[a]].conn
       /\ ~mcs[clients[a]].live
       /\ mcs[clients[a]].handlers = 1

\* ------------------------------------------------------------ RateLimiter

RateThreads == 1..NumRateThreads
\* No bucket: an absent entry of rl.limits.
NoLimit == 0

\* A request body is a sequence of bytes; c.Request.Body is a stream over
\* it: the bytes and the number of them already read.
NoBody == [data |-> <<>>, pos |-> 0]
Stream(bytes) == [data |-> bytes, pos |-> 0]

\* The bodies of the requests: a JSON object naming an account and carrying
\* a payload, one without wa_account_id, and one that is not JSON.
Payloads == {"p"}
Bodies ==
  {<<"{", a, x, "}">> : a \in Accounts \cup {""}, x \in Payloads}
    \cup {<<"p">>}

\* io.ReadAll(c.Request.Body), line 126: the bytes not yet read.
ReadAll(s) == SubSeq(s.data, s.pos + 1, Len(s.data))

\* What a reader of the stream finds left: the downstream handler's view.
Remaining(s) == ReadAll(s)

\* bytes.NewBuffer(bodyBytes) wrapped by io.NopCloser, line 137.
NewBuffer(bodyBytes) == [data |-> bodyBytes, pos |-> 0]

\* The body after a binder has read it to the end and nothing put it back.
BodyAfterBind(s) == [s EXCEPT !.pos = Len(s.data)]

\* Lines 126-137: the body is read whole and c.Request.Body is replaced
\* by a fresh buffer over the bytes read.
BodyAfterRead(s) == NewBuffer(ReadAll(s))

\* json.Unmarshal(bodyBytes, &req), lines 140-144.
Unmarshal(bodyBytes) ==
  IF Len(bodyBytes) = 4 /\ bodyBytes[1] = "{" /\ bodyBytes[4] = "}"
    THEN [err |-> FALSE, WaAccountID |-> bodyBytes[2]]
    ELSE [err |-> TRUE, WaAccountID |-> ""]

\* The responses Limit() writes itself.
BadRequest == [status |-> 400, error |-> "invalid_request", retryAfter |-> 0]
TooManyRequests ==
  [status |-> 429, error |-> "rate_limit_exceeded", retryAfter |-> 60]

\* allow(), lines 187-189: look the bucket up under the read lock.
RL_Lookup(t, a) ==
  /\ racct' = [racct EXCEPT ![t] = a]
  /\ rlim' = [rlim EXCEPT ![t] = limits[a]]
  /\ rpc' = [rpc EXCEPT ![t] = IF limits[a] = NoLimit THEN "create" ELSE "decide"]

\* Limit(), lines 126-166: read the body, put it back, parse it; answer 400
\* to a body that is not JSON or names no account, otherwise call allow().
L_Read(t, body) ==
  /\ rpc[t] = "idle"
  /\ reqs < MaxRequests
  /\ reqs' = reqs + 1
  /\ LET bodyBytes == ReadAll(Stream(body))
         req == Unmarshal(bodyBytes)
     IN IF req.err \/ req.WaAccountID = ""
          THEN /\ replies' = replies \cup {BadRequest}
               /\ UNCHANGED <<rpc, racct, rlim, rbody, rorig>>
          ELSE /\ rbody' = [rbody EXCEPT ![t] = BodyAfterRead(Stream(body))]
               /\ rorig' = [rorig EXCEPT ![t] = body]
               /\ RL_Lookup(t, req.WaAccountID)
               /\ UNCHANGED replies
  /\ UNCHANGED <<now, limits, buckets, nextBucket, admits, windows, advances>>
  /\ UNCHANGED nonRateVars

\* Lines 191-201: no bucket was found: make a full one and store it under
\* the write lock, whatever the map holds by now.
RL_Create(t) ==
  /\ rpc[t] = "create"
  /\ buckets' = [buckets EXCEPT ![nextBucket] =
                   [tokens |-> PerMinute, lastRefill |-> now]]
  /\ limits' = [limits EXCEPT ![racct[t]] = nextBucket]
  /\ rlim' = [rlim EXCEPT ![t] = nextBucket]
  /\ nextBucket' = nextBucket + 1
  /\ windows' = [windows EXCEPT ![racct[t]] = @ \cup {now}]
  /\ rpc' = [rpc EXCEPT ![t] = "decide"]
  /\ UNCHANGED <<now, racct, reqs, admits, advances, rbody, rorig, replies>>
  /\ UNCHANGED nonRateVars

\* A refill that waits for more than a minute.
RefilledLate(b) ==
  IF now - b.lastRefill > Minute
    THEN [tokens |-> PerMinute, lastRefill |-> now]
    ELSE b

\* A refill that adds a minute's tokens to those left.
RefilledOnTop(b) ==
  IF now - b.lastRefill >= Minute
    THEN [tokens |-> b.tokens + PerMinute, lastRefill |-> now]
    ELSE b

\* Lines 206-211: the bucket after the refill that is due.
Refilled(b) ==
  IF now - b.lastRefill >= Minute
    THEN [tokens |-> PerMinute, lastRefill |-> now]
    ELSE b

\* Lines 203-219, under limit.mu: refill when a minute has passed, then
\* take a token (allow returns true) or find none (false).
RL_Decide(t) ==
  /\ rpc[t] = "decide"
  /\ LET b == Refilled(buckets[rlim[t]])
         a == racct[t]
     IN /\ windows' = IF b.lastRefill = now
                        THEN [windows EXCEPT ![a] = @ \cup {now}]
                        ELSE windows
        /\ IF b.tokens > 0
             THEN /\ buckets' = [buckets EXCEPT ![rlim[t]] =
                                   [b EXCEPT !.tokens = @ - 1]]
                  /\ admits' = [admits EXCEPT ![a] = Append(@, now)]
                  /\ rpc' = [rpc EXCEPT ![t] = "next"]
             ELSE /\ buckets' = [buckets EXCEPT ![rlim[t]] = b]
                  /\ admits' = admits
                  /\ rpc' = [rpc EXCEPT ![t] = "reject"]
  /\ UNCHANGED <<now, limits, nextBucket, racct, rlim, reqs, advances, rbody,
                 rorig, replies>>
  /\ UNCHANGED nonRateVars

allow(t) ==
  \/ RL_Create(t)
  \/ RL_Decide(t)

\* The request is over: its locals are gone.
Done(t) ==
  /\ rpc' = [rpc EXCEPT ![t] = "idle"]
  /\ racct' = [racct EXCEPT ![t] = ""]
  /\ rlim' = [rlim EXCEPT ![t] = NoLimit]
  /\ rbody' = [rbody EXCEPT ![t] = NoBody]
  /\ rorig' = [rorig EXCEPT ![t] = <<>>]

\* A rejection that falls through to the next handler.
L_RejectNoAbort(t) ==
  /\ rpc[t] = "reject"
  /\ replies' = replies \cup {TooManyRequests}
  /\ rpc' = [rpc EXCEPT ![t] = "next"]
  /\ UNCHANGED <<now, limits, buckets, nextBucket, racct, rlim, reqs, admits,
                 windows, advances, rbody, rorig>>
  /\ UNCHANGED nonRateVars

\* Lines 166-174: allow returned false: answer 429 and abort the chain.
L_Reject(t) ==
  /\ rpc[t] = "reject"
  /\ replies' = replies \cup {TooManyRequests}
  /\ Done(t)
  /\ UNCHANGED <<now, limits, buckets, nextBucket, reqs, admits, windows,
                 advances>>
  /\ UNCHANGED nonRateVars

\* Lines 176-182: allow returned true: after the jitter sleep (time may
\* have passed meanwhile) c.Next() runs the downstream handler, which reads
\* c.Request.Body.
L_Next(t) ==
  /\ rpc[t] = "next"
  /\ Done(t)
  /\ UNCHANGED <<now, limits, buckets, nextBucket, reqs, admits, windows,
                 advances, replies>>
  /\ UNCHANGED nonRateVars

Limit(t) ==
  \/ \E body \in Bodies : L_Read(t, body)
  \/ allow(t)
  \/ L_Reject(t)
  \/ L_Next(t)

\* RateLimiter.performCleanup, lines 249-263, under rl.mu and each
\* limit.mu: drop the buckets last filled more than ten minutes ago.
RL_Cleanup ==
  /\ \E a \in Accounts :
       limits[a] # NoLimit /\ buckets[limits[a]].lastRefill < now - BucketMaxAge
  /\ limits' = [a \in Accounts |->
                  IF limits[a] # NoLimit
                     /\ buckets[limits[a]].lastRefill < now - BucketMaxAge
                    THEN NoLimit ELSE limits[a]]
  /\ UNCHANGED <<now, buckets, nextBucket, rpc, racct, rlim, reqs, admits,
                 windows, advances, rbody, rorig, replies>>
  /\ UNCHANGED nonRateVars

\* Time passes.
RL_Advance(d) ==
  /\ advances < MaxAdvances
  /\ advances' = advances + 1
  /\ now' = now + d
  /\ UNCHANGED <<limits, buckets, nextBucket, rpc, racct, rlim, reqs, admits,
                 windows, rbody, rorig, replies>>
  /\ UNCHANGED nonRateVars

NextRate ==
  \/ \E t \in RateThreads : Limit(t)
  \/ RL_Cleanup
  \/ \E d \in {30, 630} : RL_Advance(d)

SpecRate == Init /\ [][NextRate]_vars

\* Admissions for an account at an instant of [from, from + Minute).
AdmittedIn(a, from) ==
  Cardinality({i \in DOMAIN admits[a] :
                 from <= admits[a][i] /\ admits[a][i] < from + Minute})

\* C3: within any 60-second window that opens when a bucket of account A
\* is filled (created or refilled), at most PerMinute requests are admitted
\* for A.
C3_RateBound ==
  \A a \in Accounts : \A w \in windows[a] : AdmittedIn(a, w) <= PerMinute

\* C16: a decision on a bucket made a minute or more after its last_refill
\* first sets tokens to PerMinute and last_refill to now, so the request is
\* admitted and leaves PerMinute - 1 tokens; a decision made earlier leaves
\* last_refill alone and never adds a token.
C16_RateReset ==
  [][ \A t \in RateThreads :
        RL_Decide(t) =>
          LET b == buckets[rlim[t]]
              after == buckets'[rlim[t]]
          IN /\ now - b.lastRefill >= Minute =>
                  /\ after = [tokens |-> PerMinute - 1, lastRefill |-> now]
                  /\ rpc'[t] = "next"
                  /\ Len(admits'[racct[t]]) = Len(admits[racct[t]]) + 1
             /\ now - b.lastRefill < Minute =>
                  /\ after.lastRefill = b.lastRefill
                  /\ after.tokens <= b.tokens ]_vars

\* a1's only bucket, made at 0 and emptied, was refilled exactly a minute
\* later by a request that was admitted.
C16_Witness ==
  /\ now = Minute
  /\ nextBucket = 2
  /\ limits["a1"] = 1
  /\ buckets[1] = [tokens |-> PerMinute - 1, lastRefill |-> Minute]
  /\ admits["a1"] = <<0, 0, Minute>>

\* C17: a decision on a bucket with no token, made less than a minute after
\* its last_refill, leaves every bucket as it is and admits nothing; the
\* request is then answered 429 rate_limit_exceeded with retry_after 60 and
\* ends there: the downstream handler is not run and nothing is sent
\* upstream.
C17_Rejected ==
  [][ \A t \in RateThreads :
        /\ (/\ RL_Decide(t)
            /\ buckets[rlim[t]].tokens = 0
            /\ now - buckets[rlim[t]].lastRefill < Minute)
             => /\ buckets' = buckets
                /\ admits' = admits
                /\ rpc'[t] = "reject"
        /\ (rpc[t] = "reject" /\ rpc'[t] # "reject")
             => /\ TooManyRequests \in replies'
                /\ rpc'[t] = "idle"
                /\ buckets' = buckets
                /\ UNCHANGED sendVars ]_vars

\* A request for a1 was answered 429 while a1's bucket, filled at 0, is
\* empty and less than a minute old.
C17_Witness ==
  /\ TooManyRequests \in replies
  /\ limits["a1"] # NoLimit
  /\ buckets[limits["a1"]].tokens = 0
  /\ now - buckets[limits["a1"]].lastRefill < Minute
  /\ \A t \in RateThreads : rpc[t] = "idle"

\* The accountLimit objects made so far.
Buckets == 1..(nextBucket - 1)

\* C18: every bucket holds between 0 and PerMinute tokens; a new bucket
\* starts with PerMinute tokens; an admission takes exactly one token from
\* the bucket as it stands after the refill that was due.
C18_TokensInRange ==
  /\ [](\A b \in Buckets :
          0 <= buckets[b].tokens /\ buckets[b].tokens <= PerMinute)
  /\ [][ \A t \in RateThreads :
           /\ RL_Create(t) => buckets'[nextBucket].tokens = PerMinute
           /\ (RL_Decide(t) /\ rpc'[t] = "next")
                => buckets'[rlim[t]].tokens
                     = Refilled(buckets[rlim[t]]).tokens - 1 ]_vars

\* A bucket has been emptied by admissions and another is still full.
C18_Witness ==
  /\ \E b \in Buckets : buckets[b].tokens = 0
  /\ \E b \in Buckets : buckets[b].tokens = PerMinute
  /\ \E a \in Accounts : Len(admits[a]) = PerMinute

JitterConfigs == 0..MaxJitterMS

\* getJitter(), lines 222-234: the delays it can return, in nanoseconds;
\* rand.Intn(n) is any of 0..n-1.
getJitter ==
  IF jitterMinMS = 0 /\ jitterMaxMS = 0
    THEN {0}
    ELSE LET jitterRange == jitterMaxMS - jitterMinMS
         IN IF jitterRange <= 0
              THEN {jitterMinMS * Millisecond}
              ELSE {(jitterMinMS + r) * Millisecond :
                      r \in 0..(jitterRange - 1)}

\* A limiter built with any of the settings.
InitJitter ==
  /\ InitMgr /\ InitRate /\ InitSend /\ InitDev /\ InitHook /\ InitSender
  /\ InitChain /\ InitSink
  /\ jitterMinMS \in JitterConfigs
  /\ jitterMaxMS \in JitterConfigs
  /\ jitters = <<>>

\* Limit() line 177: jitter := rl.getJitter().
J_Get ==
  /\ Len(jitters) < MaxJitterCalls
  /\ \E d \in getJitter : jitters' = Append(jitters, d)
  /\ UNCHANGED <<now, mgrVars, rateVars, sendVars, devVars, hookVars,
                 jitterMinMS, jitterMaxMS, sndVars, ridVars, pairVars>>

NextJitter == J_Get

SpecJitter == InitJitter /\ [][NextJitter]_vars

\* C19: a delay returned by getJitter lies in [jitter_min_ms, jitter_max_ms)
\* when jitter_min_ms < jitter_max_ms, and is 0 when jitter_max_ms <=
\* jitter_min_ms.
C19_JitterBounds ==
  \A i \in DOMAIN jitters :
    /\ jitterMinMS < jitterMaxMS =>
         /\ jitterMinMS * Millisecond <= jitters[i]
         /\ jitters[i] < jitterMaxMS * Millisecond
    /\ jitterMaxMS <= jitterMinMS => jitters[i] = 0

\* The same with the empty range left to the code: the delay is within
\* [jitter_min_ms, jitter_max_ms) when the range is not empty.
C19_JitterInRange ==
  \A i \in DOMAIN jitters :
    jitterMinMS < jitterMaxMS =>
      /\ jitterMinMS * Millisecond <= jitters[i]
      /\ jitters[i] < jitterMaxMS * Millisecond

\* ------------------------------------------- SendMessage and idempotency

SendThreads == 1..NumSendThreads
\* The empty message id "" (the placeholder of a record); the upstream
\* assigns the ids 1, 2, ...
Empty == 0

\* IdempotencyStore.CheckAndStore(key, messageID), one critical section
\* of the store: an empty key bypasses the store; an existing record is
\* returned as a duplicate and left as it is; otherwise the record is
\* inserted.
CheckAndStore(key, messageID) ==
  IF key = ""
    THEN [existingMessageID |-> Empty, isDuplicate |-> FALSE,
          records |-> records]
    ELSE IF key \in DOMAIN records
      THEN [existingMessageID |-> records[key], isDuplicate |-> TRUE,
            records |-> records]
      ELSE [existingMessageID |-> Empty, isDuplicate |-> FALSE,
            records |-> records @@ (key :> messageID)]

\* The requests in flight in the handler, other than that of t.
InFlight(t) == {sreq[u] : u \in {v \in SendThreads \ {t} : spc[v] # "idle"}}

\* c.JSON: the response of request t, with the requests in flight then.
\* body is "message" (a SendMessageResponse), "presence" (status only) or
\* "error".
Respond(t, req, key, code, body, messageID, duplicate) ==
  Append(responses,
         [req |-> req, key |-> key, code |-> code, body |-> body,
          message_id |-> messageID, duplicate |-> duplicate,
          during |-> InFlight(t)])

\* SendMessage, lines 98-124: bind the request, CheckAndStore(key, "");
\* a duplicate is answered at once with the stored id.
SM_Check(t, k) ==
  /\ spc[t] = "idle"
  /\ nextReq <= MaxSendRequests
  /\ nextReq' = nextReq + 1
  /\ LET r == CheckAndStore(k, Empty)
     IN /\ records' = r.records
        /\ IF k # "" /\ r.isDuplicate
             THEN /\ responses' = Respond(t, nextReq, k, 200, "message",
                                          r.existingMessageID, TRUE)
                  /\ UNCHANGED <<spc, skey, sreq>>
             ELSE /\ spc' = [spc EXCEPT ![t] = "prepare"]
                  /\ skey' = [skey EXCEPT ![t] = k]
                  /\ sreq' = [sreq EXCEPT ![t] = nextReq]
                  /\ UNCHANGED responses
  /\ UNCHANGED <<now, sresp, nextMsgId, upstream>>
  /\ UNCHANGED nonSendVars

\* The response that ends request t.
SM_Finish(t, code, body, messageID) ==
  /\ responses' = Respond(t, sreq[t], skey[t], code, body, messageID, FALSE)
  /\ spc' = [spc EXCEPT ![t] = "idle"]
  /\ skey' = [skey EXCEPT ![t] = ""]
  /\ sreq' = [sreq EXCEPT ![t] = 0]
  /\ sresp' = [sresp EXCEPT ![t] = 0]

\* Lines 126-235: resolve the session (500 on failure), require it
\* connected, parse the recipient and build the message (400 on failure);
\* a presence request is sent here and answered without a message id.
SM_Prepare(t) ==
  /\ spc[t] = "prepare"
  /\ \E out \in {"built", "presence", "bad", "unavailable"} :
       CASE out = "built" ->
              /\ spc' = [spc EXCEPT ![t] = "send"]
              /\ UNCHANGED <<skey, sreq, sresp, responses>>
         [] out = "presence" -> SM_Finish(t, 200, "presence", Empty)
         [] out = "bad" -> SM_Finish(t, 400, "error", Empty)
         [] out = "unavailable" -> SM_Finish(t, 500, "error", Empty)
  /\ UNCHANGED <<now, records, nextReq, nextMsgId, upstream>>
  /\ UNCHANGED nonSendVars

\* Lines 237-246: mc.Client.SendMessage; an error ends the request.
SM_Send(t) ==
  /\ spc[t] = "send"
  /\ upstream' = [upstream EXCEPT ![skey[t]] = @ + 1]
  /\ \E ok \in BOOLEAN :
       IF ok
         THEN /\ sresp' = [sresp EXCEPT ![t] = nextMsgId]
              /\ nextMsgId' = nextMsgId + 1
              /\ spc' = [spc EXCEPT ![t] = "store"]
              /\ UNCHANGED <<skey, sreq, responses>>
         ELSE /\ SM_Finish(t, 500, "error", Empty)
              /\ UNCHANGED nextMsgId
  /\ UNCHANGED <<now, records, nextReq>>
  /\ UNCHANGED nonSendVars

\* Lines 248-262: CheckAndStore(key, resp.ID), then the response with the
\* id of the send.
SM_Store(t) ==
  /\ spc[t] = "store"
  /\ records' = CheckAndStore(skey[t], sresp[t]).records
  /\ SM_Finish(t, 200, "message", sresp[t])
  /\ UNCHANGED <<now, nextReq, nextMsgId, upstream>>
  /\ UNCHANGED nonSendVars

SendMessage(t) ==
  \/ \E k \in Keys : SM_Check(t, k)
  \/ SM_Prepare(t)
  \/ SM_Send(t)
  \/ SM_Store(t)

NextSend == \E t \in SendThreads : SendMessage(t)

SpecSend == Init /\ [][NextSend]_vars

\* The responses that report a sent message to a request with key k.
Sent(k) ==
  {i \in DOMAIN responses :
     responses[i].key = k /\ responses[i].body = "message"}

\* Two responses of requests that were in the handler at the same time.
Concurrent(i, j) ==
  \/ responses[j].req \in responses[i].during
  \/ responses[i].req \in responses[j].during

\* C4: for a non-empty key K, concurrent requests with K initiate one
\* upstream send, and their successful responses carry the same message_id.
C4_SameMessageId ==
  \A k \in Keys \ {""} :
    /\ upstream[k] <= 1
    /\ \A i, j \in Sent(k) :
         Concurrent(i, j) => responses[i].message_id = responses[j].message_id

DS_Get(a) ==
  /\ sess[a] = NoDev
  /\ \E ok \in BOOLEAN :
       IF ok
         THEN /\ Len(container) = 0 => nextDev <= MaxDevices
              /\ sess' = [sess EXCEPT ![a] = GetDeviceStore(a)]
              /\ lastDev' = [lastDev EXCEPT ![a] = GetDeviceStore(a)]
              /\ firstDev' = IF firstDev[a] = NoDev
                               THEN [firstDev EXCEPT ![a] = GetDeviceStore(a)]
                               ELSE firstDev
              /\ nextDev' = AfterGetDeviceStore
         ELSE UNCHANGED <<sess, lastDev, firstDev, nextDev>>
  /\ UNCHANGED <<now, container>>
  /\ UNCHANGED nonDevVars

\* Pairing succeeds for the session of account a: its device is saved in
\* the container (PutDevice).
DS_Pair(a) ==
  /\ sess[a] # NoDev
  /\ \A i \in DOMAIN container : container[i] # sess[a]
  /\ container' = Append(container, sess[a])
  /\ UNCHANGED <<now, nextDev, devVars>>
  /\ UNCHANGED nonDevVars

\* RemoveClient(a): the session leaves the registry; the store is not
\* touched.
DS_Remove(a) ==
  /\ sess[a] # NoDev
  /\ sess' = [sess EXCEPT ![a] = NoDev]
  /\ UNCHANGED <<now, store, firstDev, lastDev>>
  /\ UNCHANGED nonDevVars

\* The sequence without the device d.
Without(seq, d) == SelectSeq(seq, LAMBDA x : x # d)

\* DeleteDevice on the device of a's session (device.Delete), after which
\* the session is removed; the accounts that device was first given to
\* start afresh.
DS_Delete(a) ==
  /\ sess[a] # NoDev
  /\ container' = Without(container, sess[a])
  /\ firstDev' = [b \in Accounts |->
                    IF b = a \/ firstDev[b] = sess[a] THEN NoDev
                    ELSE firstDev[b]]
  /\ lastDev' = [b \in Accounts |->
                   IF b = a \/ firstDev[b] = sess[a] THEN NoDev
                   ELSE lastDev[b]]
  /\ sess' = [sess EXCEPT ![a] = NoDev]
  /\ UNCHANGED <<now, nextDev>>
  /\ UNCHANGED nonDevVars

\* The process restarts: the sessions are gone, the container survives.
DS_Restart ==
  /\ \E a \in Accounts : sess[a] # NoDev
  /\ sess' = [a \in Accounts |-> NoDev]
  /\ UNCHANGED <<now, store, firstDev, lastDev>>
  /\ UNCHANGED nonDevVars

NextStore ==
  \/ \E a \in Accounts : DS_Get(a) \/ DS_Pair(a) \/ DS_Remove(a) \/ DS_Delete(a)
  \/ DS_Restart

SpecStore == Init /\ [][NextStore]_vars

\* C6: the sessions of two distinct accounts never hold the same device.
C6_DevicePerAccount ==
  \A a, b \in Accounts :
    (a # b /\ sess[a] # NoDev /\ sess[b] # NoDev) => sess[a] # sess[b]

\* C7: until DeleteDevice for the account's device, every GetDeviceStore(A)
\* returns the device its first call returned, across removal and restart.
C7_DeviceStable ==
  \A a \in Accounts : firstDev[a] # NoDev => lastDev[a] = firstDev[a]

\* ------------------------------------------- event router and webhooks

\* The event types handleEvent switches on; "Other" is any other event.
EventKinds == {"Message", "Receipt", "Connected", "Disconnected", "LoggedOut",
               "StreamReplaced", "QR", "PairSuccess", "GroupInfo",
               "JoinedGroup", "Other"}

\* The endpoint the handler of an event passes to Send / SendStatus.
Endpoint(kind) ==
  CASE kind = "Message"     -> "inbound"
    [] kind = "Receipt"     -> "receipt"
    [] kind = "QR"          -> "qr"
    [] kind = "PairSuccess" -> "pair_success"
    [] kind = "GroupInfo"   -> "group_info"
    [] kind = "JoinedGroup" -> "joined_group"
    [] OTHER                -> "status"

\* Sessions of both accounts are registered (GetOrCreateClient has run for
\* each, on a new device each) and their streams are up.
HookRegistry ==
  /\ clients = [a \in Accounts |-> IF a = "a1" THEN 1 ELSE 2]
  /\ mcs = [m \in McIds |->
              IF m <= 2
                THEN [acct |-> IF m = 1 THEN "a1" ELSE "a2", la |-> 0,
                      conn |-> FALSE, live |-> TRUE, dev |-> m,
                      handlers |-> 1]
                ELSE BlankMc]
  /\ nextMc = 3
  /\ container = <<>>
  /\ nextDev = 3

\* The process with its sessions registered and the event router idle.
InitRouter ==
  /\ HookRegistry /\ InitGoroutines /\ InitRate /\ InitSend /\ InitDev
  /\ InitHook /\ InitOther

\* The upstream library has an event for the session of account a.
U_Emit(a, kind, ack) ==
  /\ nextEv <= MaxEvents
  /\ ack => kind = "Message"
  /\ upq' = [upq EXCEPT ![a] = Append(@, [id |-> nextEv, kind |-> kind,
                                           ack |-> ack])]
  /\ nextEv' = nextEv + 1
  /\ UNCHANGED <<now, mcs, hpc, hev, posts, inflight, outcomes, dispatched,
                 initiated>>
  /\ UNCHANGED nonHookVars

\* handleEvent without a default case of its own: an event of an
\* unhandled kind goes on to a webhook like the others.
H_DispatchSendsAll(a) ==
  /\ hpc[a] = "idle"
  /\ upq[a] # << >>
  /\ LET ev == Head(upq[a]) IN
       /\ upq' = [upq EXCEPT ![a] = Tail(@)]
       /\ dispatched' = [dispatched EXCEPT ![a] = Append(@, ev.id)]
       /\ mcs' = HandleEvent(clients[a], ev.kind)
       /\ hev' = [hev EXCEPT ![a] = ev]
       /\ hpc' = [hpc EXCEPT ![a] = IF ev.ack THEN "markread" ELSE "send"]
  /\ UNCHANGED <<now, nextEv, posts, inflight, outcomes, initiated>>
  /\ UNCHANGED nonHookVars

\* The library calls the session's handler with its next event, once the
\* handler has returned from the one before: handleEvent switches on the
\* type and the typed handler updates the session.
H_Dispatch(a) ==
  /\ hpc[a] = "idle"
  /\ upq[a] # << >>
  /\ LET ev == Head(upq[a]) IN
       /\ upq' = [upq EXCEPT ![a] = Tail(@)]
       /\ dispatched' = [dispatched EXCEPT ![a] = Append(@, ev.id)]
       /\ mcs' = HandleEvent(clients[a], ev.kind)
       /\ IF ev.kind = "Other"
            THEN UNCHANGED <<hpc, hev>>
            ELSE /\ hev' = [hev EXCEPT ![a] = ev]
                 /\ hpc' = [hpc EXCEPT ![a] = IF ev.ack THEN "markread"
                                              ELSE "send"]
  /\ UNCHANGED <<now, nextEv, posts, inflight, outcomes, initiated>>
  /\ UNCHANGED nonHookVars

\* handleMessageEvent, lines 120-128: a group message not from us is
\* marked read, with a 5 s deadline; a failure is logged.
H_MarkRead(a) ==
  /\ hpc[a] = "markread"
  /\ hpc' = [hpc EXCEPT ![a] = "send"]
  /\ UNCHANGED <<now, mcs, upq, hev, nextEv, posts, inflight, outcomes,
                 dispatched, initiated>>
  /\ UNCHANGED nonHookVars

\* The handler hands the envelope to a goroutine of its own and returns.
H_SendDetached(a) ==
  /\ hpc[a] = "send"
  /\ posts' = posts \cup {[acct |-> a, id |-> hev[a].id,
                           endpoint |-> Endpoint(hev[a].kind)]}
  /\ hpc' = [hpc EXCEPT ![a] = "idle"]
  /\ hev' = [hev EXCEPT ![a] = NoEvent]
  /\ UNCHANGED <<now, mcs, upq, nextEv, inflight, outcomes, dispatched,
                 initiated>>
  /\ UNCHANGED nonHookVars

\* The handler calls webhookSender.Send (or SendStatus); Send, lines
\* 42-69: defaults, marshal, sign, build the request. The handler is
\* inside Send from here on.
H_Send(a) ==
  /\ hpc[a] = "send"
  /\ posts' = posts \cup {[acct |-> a, id |-> hev[a].id,
                           endpoint |-> Endpoint(hev[a].kind)]}
  /\ hpc' = [hpc EXCEPT ![a] = "await"]
  /\ UNCHANGED <<now, mcs, upq, hev, nextEv, inflight, outcomes, dispatched,
                 initiated>>
  /\ UNCHANGED nonHookVars

\* Send, line 72: httpClient.Do begins the POST.
H_Post(a) ==
  /\ \E p \in posts :
       /\ p.acct = a
       /\ posts' = posts \ {p}
       /\ inflight' = inflight \cup {p}
       /\ initiated' = [initiated EXCEPT ![a] = Append(@, p.id)]
  /\ UNCHANGED <<now, mcs, upq, hpc, hev, nextEv, outcomes, dispatched>>
  /\ UNCHANGED nonHookVars

\* Send, lines 72-98: httpClient.Do returns with an answer of the sink, an
\* error or the 10 s timeout; Send returns, and the handler that called it
\* returns to the library.
H_Response(a) ==
  /\ \E p \in inflight :
       /\ p.acct = a
       /\ inflight' = inflight \ {p}
       /\ \E result \in {"ok", "status", "error"} :
            outcomes' = outcomes \cup {[id |-> p.id, result |-> result]}
       /\ IF hpc[a] = "await" /\ hev[a].id = p.id
            THEN /\ hpc' = [hpc EXCEPT ![a] = "idle"]
                 /\ hev' = [hev EXCEPT ![a] = NoEvent]
            ELSE UNCHANGED <<hpc, hev>>
  /\ UNCHANGED <<now, mcs, upq, nextEv, posts, dispatched, initiated>>
  /\ UNCHANGED nonHookVars

handleEvent(a) ==
  \/ H_Dispatch(a)
  \/ H_MarkRead(a)
  \/ H_Send(a)
  \/ H_Post(a)
  \/ H_Response(a)

NextHook ==
  \/ \E a \in Accounts, kind \in EventKinds, ack \in BOOLEAN :
       U_Emit(a, kind, ack)
  \/ \E a \in Accounts : handleEvent(a)

SpecHook == InitRouter /\ [][NextHook]_vars

\* The place of event id in a sequence of event ids.
Pos(seq, id) == CHOOSE i \in DOMAIN seq : seq[i] = id

\* C9: for each session, the POSTs begin in the order in which the events
\* were handed to the handler.
C9_WebhookOrder ==
  \A a \in Accounts :
    /\ \A i \in DOMAIN initiated[a] :
         \E j \in DOMAIN dispatched[a] : dispatched[a][j] = initiated[a][i]
    /\ \A i, j \in DOMAIN initiated[a] :
         i < j => Pos(dispatched[a], initiated[a][i])
                    < Pos(dispatched[a], initiated[a][j])

\* Two events of one session were dispatched and their webhooks both begun.
C9_Witness ==
  /\ Len(dispatched["a1"]) >= 2
  /\ Len(initiated["a1"]) >= 2

\* C10: the handler does not wait for a delivery: while a POST of the
\* session is under way, the handler is not held inside Send, so the next
\* event of the session can be dispatched.
C10_Decoupled ==
  \A a \in Accounts : \A p \in inflight :
    p.acct = a => ~(hpc[a] = "await" /\ hev[a].id = p.id)

\* ------------------------------------------------------ webhooks.Sender

\* cfg.LaravelWebhookBase and cfg.SigningSecret: configuration values.
BaseURL == "https://sink"
SigningSecret == "secret"
\* cfg.WebhookRetryMax: the default.
WebhookRetryMax == 3
\* The values uuid.New().String() may return.
Uuids == {"u1", "u2"}
\* time.Time{}: the zero Timestamp of a payload that sets none.
ZeroTime == -1
\* httpClient.Do returned an error (no answer, or the 10 s timeout).
NetErr == 0
\* What the sink may answer, and no answer at all.
Statuses == {200, 204, 302, 404, 408, 429, 500}
Answers == Statuses \cup {NetErr}

\* The callers of Send: the handler of each event type of events.go, and
\* SendError.
Sites == (EventKinds \ {"Other"}) \cup {"Error"}

\* The EventType the caller puts in the payload.
EventType(site) ==
  CASE site = "Message"     -> "message"
    [] site = "Receipt"     -> "receipt"
    [] site = "QR"          -> "qr"
    [] site = "PairSuccess" -> "pair_success"
    [] site = "GroupInfo"   -> "group_info"
    [] site = "JoinedGroup" -> "joined_group"
    [] site = "Error"       -> "error"
    [] OTHER                -> "status"

\* The endpoint the caller passes to Send.
SiteEndpoint(site) == IF site = "Error" THEN "errors" ELSE Endpoint(site)

\* Data["status"] of the payload SendStatus builds; "" in other payloads.
Status(site) ==
  CASE site = "Connected"      -> "connected"
    [] site = "Disconnected"   -> "disconnected"
    [] site = "LoggedOut"      -> "logged_out"
    [] site = "StreamReplaced" -> "stream_replaced"
    [] OTHER                   -> ""

\* The WebhookPayload the caller builds: no caller sets Timestamp or
\* RequestID.
Payload(a, site) ==
  [EventType |-> EventType(site), WaAccountID |-> a, Timestamp |-> ZeroTime,
   Data |-> Status(site), RequestID |-> ""]

\* Send, lines 43-48: the defaults of RequestID and Timestamp.
Filled(payload, u) ==
  [payload EXCEPT !.RequestID = IF @ = "" THEN u ELSE @,
                  !.Timestamp = IF @ = ZeroTime THEN now ELSE @]

\* json.Marshal(payload), line 50: the fields in the order of the struct.
Marshal(payload) ==
  <<"event_type", payload.EventType, "wa_account_id", payload.WaAccountID,
    "timestamp", payload.Timestamp, "data", payload.Data,
    "request_id", payload.RequestID>>

\* The value of a field of a serialised payload: names are at the odd
\* places, each followed by its value.
Field(jsonData, name) ==
  jsonData[(CHOOSE i \in DOMAIN jsonData :
              i % 2 = 1 /\ jsonData[i] = name) + 1]

\* crypto/hmac with sha256 and encoding/hex: functions of their arguments,
\* different for different arguments.
HmacSha256(key, data) == [alg |-> "hmac-sha256", key |-> key, data |-> data]
HexEncode(mac) == [hex |-> mac]

\* Sender.sign, lines 101-105.
sign(data) == <<"sha256=", HexEncode(HmacSha256(SigningSecret, data))>>

\* fmt.Sprintf("%s/%s", s.baseURL, endpoint), line 59.
Url(endpoint) == <<BaseURL, "/", endpoint>>

\* A request signed over the payload as the caller passed it.
RequestSignedEarly(endpoint, payload, u) ==
  [url |-> Url(endpoint), body |-> Marshal(Filled(payload, u)),
   signature |-> sign(Marshal(payload)),
   requestID |-> Filled(payload, u).RequestID]

\* Send, lines 43-69: the request it builds.
Request(endpoint, payload, u) ==
  LET jsonData == Marshal(Filled(payload, u))
  IN [url |-> Url(endpoint), body |-> jsonData, signature |-> sign(jsonData),
      requestID |-> Filled(payload, u).RequestID]

\* An error only for a status of 400 or more.
SendFailedFrom400(answer) == answer = NetErr \/ answer >= 400

\* Send, lines 73 and 83: the cases in which it returns an error.
SendFailed(answer) == answer = NetErr \/ answer >= 300

\* A caller calls Send for account a; Send builds the request.
W_Call(a, site, u) ==
  /\ wcall = NoCall
  /\ wcall' = [pc |-> "do",
               req |-> Request(SiteEndpoint(site), Payload(a, site), u)]
  /\ UNCHANGED <<now, mgrVars, rateVars, sendVars, devVars, hookVars, cfgVars,
                 wlast, ridVars, pairVars>>

\* Send, lines 72-98: httpClient.Do is called once; whatever comes back,
\* Send returns, with an error or nil. Its callers drop the result.
W_Do(answer) ==
  /\ wcall.pc = "do"
  /\ wlast' = [req |-> wcall.req, answer |-> answer, attempts |-> 1,
               err |-> SendFailed(answer)]
  /\ wcall' = NoCall
  /\ UNCHANGED <<now, mgrVars, rateVars, sendVars, devVars, hookVars, cfgVars,
                 ridVars, pairVars>>

NextSender ==
  \/ \E a \in Accounts, site \in Sites, u \in Uuids : W_Call(a, site, u)
  \/ \E answer \in Answers : W_Do(answer)

SpecSender == Init /\ [][NextSender]_vars

\* A delivery has finished.
Delivered == wlast # NoDelivery

\* C21: the X-WA-Signature of a delivery is "sha256=" followed by the hex
\* HMAC-SHA256, under the signing secret, of the very bytes posted as the
\* body, and those bytes carry the request_id and timestamp Send filled in.
C21_SignatureValid ==
  Delivered =>
    /\ wlast.req.signature
         = <<"sha256=", HexEncode(HmacSha256(SigningSecret, wlast.req.body))>>
    /\ Field(wlast.req.body, "request_id") # ""
    /\ Field(wlast.req.body, "timestamp") # ZeroTime

\* A status envelope was delivered with a generated request_id.
C21_Witness ==
  /\ Delivered
  /\ Field(wlast.req.body, "event_type") = "status"
  /\ Field(wlast.req.body, "request_id") = "u2"

\* C22: a delivery is posted to base_url + "/" + the event_type inside its
\* body.
C22_UrlIsEventType ==
  Delivered =>
    wlast.req.url = <<BaseURL, "/", Field(wlast.req.body, "event_type")>>

\* The failures worth another attempt.
Transient(answer) == answer = NetErr \/ answer >= 500 \/ answer \in {408, 429}

\* C23: a delivery reported as failed after a transient failure was tried
\* once and then WebhookRetryMax more times; one that failed with another
\* 4xx status was tried once.
C23_Retried ==
  (Delivered /\ wlast.err) =>
    IF Transient(wlast.answer)
      THEN wlast.attempts = 1 + WebhookRetryMax
      ELSE wlast.attempts = 1

\* C24: Send returns nil exactly when the sink answered with a status below
\* 300, and an error otherwise; the return of Send changes neither the
\* sessions nor the responses of the API.
C24_SuccessBelow300 ==
  /\ [](Delivered =>
          (~wlast.err <=> (wlast.answer # NetErr /\ wlast.answer < 300)))
  /\ [][ \A answer \in Answers :
           W_Do(answer) => UNCHANGED <<mgrVars, sendVars>> ]_vars

\* A delivery the sink answered with a redirect came back as an error.
C24_Witness ==
  /\ Delivered
  /\ wlast.answer = 302
  /\ wlast.err

\* ------------------------------------------------- request_id middleware

\* The X-Request-ID header of an incoming request; "" when it has none.
IncomingIds == {"", "r1", "r2"}
\* The route groups of main.go: /v1/messages runs Limit() before its
\* handler, the others do not.
Routes == {"messages", "sessions"}
\* The statuses a handler answers with.
HandlerStatuses == {200, 400, 500}

\* RequestID(), request_id.go lines 13-29: take the id from the header or
\* make one, keep it in the context and set the response header.
Q_Arrive(route, h, u) ==
  /\ qreq = NoRequest
  /\ LET requestID == IF h = "" THEN u ELSE h
     IN qreq' = [pc |-> IF route = "messages" THEN "limit" ELSE "handler",
                 incoming |-> h, requestID |-> requestID,
                 header |-> requestID]
  /\ UNCHANGED <<now, mgrVars, rateVars, sendVars, devVars, hookVars, cfgVars,
                 sndVars, qresp, pairVars>>

\* What Limit() answers itself, part_009 lines 144-174: the JSON body holds
\* error, message and, for 429, retry_after.
LimitReply(status) ==
  [status |-> status, incoming |-> qreq.incoming, header |-> qreq.header,
   bodyRequestID |-> ""]

\* Limit(), part_009 lines 123-184, for the request in the chain: 400 for
\* a body that is not JSON or names no account, 429 when allow() returns
\* false, else on to the handler.
Q_Limit(body, allowed) ==
  /\ qreq.pc = "limit"
  /\ LET req == Unmarshal(ReadAll(Stream(body)))
     IN IF req.err \/ req.WaAccountID = ""
          THEN qresp' = LimitReply(400) /\ qreq' = NoRequest
          ELSE IF ~allowed
                 THEN qresp' = LimitReply(429) /\ qreq' = NoRequest
                 ELSE qreq' = [qreq EXCEPT !.pc = "handler"] /\ UNCHANGED qresp
  /\ UNCHANGED <<now, mgrVars, rateVars, sendVars, devVars, hookVars, cfgVars,
                 sndVars, pairVars>>

\* A handler (message.go, part_008): requestID := c.GetString("request_id")
\* and every c.JSON it writes carries "request_id": requestID.
Q_Handler(status) ==
  /\ qreq.pc = "handler"
  /\ qresp' = [status |-> status, incoming |-> qreq.incoming,
               header |-> qreq.header, bodyRequestID |-> qreq.requestID]
  /\ qreq' = NoRequest
  /\ UNCHANGED <<now, mgrVars, rateVars, sendVars, devVars, hookVars, cfgVars,
                 sndVars, pairVars>>

NextChain ==
  \/ \E route \in Routes, h \in IncomingIds, u \in Uuids : Q_Arrive(route, h, u)
  \/ \E body \in Bodies, allowed \in BOOLEAN : Q_Limit(body, allowed)
  \/ \E status \in HandlerStatuses : Q_Handler(status)

SpecChain == Init /\ [][NextChain]_vars

\* C25: every response carries the request's id in the X-Request-ID header
\* and in its JSON body: the incoming X-Request-ID when there was one, a
\* generated id otherwise.
C25_RequestIdEchoed ==
  qresp # NoResponse =>
    /\ qresp.header # ""
    /\ qresp.bodyRequestID = qresp.header
    /\ qresp.incoming # "" => qresp.header = qresp.incoming
    /\ qresp.incoming = "" => qresp.header \in Uuids

\* The same for the X-Request-ID header alone, and for the body of the
\* responses the handlers write.
C25_HeaderEchoed ==
  qresp # NoResponse =>
    /\ qresp.header # ""
    /\ qresp.incoming # "" => qresp.header = qresp.incoming
    /\ qresp.incoming = "" => qresp.header \in Uuids
    /\ qresp.status \notin {400, 429} => qresp.bodyRequestID = qresp.header

\* ------------------------------------------- pairing: GetQR and events

\* The events that tell of pairing and of the state of the stream.
PairKinds == {"PairSuccess", "Connected", "Disconnected", "LoggedOut",
              "StreamReplaced"}

\* Sessions of both accounts are registered, with the handler of
\* SetupEventHandlers, and not connected.
PairRegistry ==
  /\ clients = [a \in Accounts |-> IF a = "a1" THEN 1 ELSE 2]
  /\ mcs = [m \in McIds |->
              IF m <= 2
                THEN [acct |-> IF m = 1 THEN "a1" ELSE "a2", la |-> 0,
                      conn |-> FALSE, live |-> FALSE, dev |-> m,
                      handlers |-> 1]
                ELSE BlankMc]
  /\ nextMc = 3
  /\ container = <<>>
  /\ nextDev = 3

InitPair ==
  /\ PairRegistry /\ InitGoroutines /\ InitRate /\ InitSend /\ InitDev
  /\ InitHook /\ InitOther

\* GetQR, part_008 lines 395-436: the session is not connected; the
\* handler starts Connect in a goroutine and adds an event handler of its
\* own to the client.
QR_AddHandler(a) ==
  /\ ~mcs[clients[a]].live
  /\ mcs[clients[a]].handlers = 1
  /\ mcs' = [mcs EXCEPT ![clients[a]].handlers = 2]
  /\ UNCHANGED <<now, thr, reg, lock, store, bg>>
  /\ UNCHANGED nonMgrVars

\* GetQR returns (a QR code, success, a timeout or an error came):
\* defer mc.Client.RemoveEventHandler(eventHandler), line 446.
QR_RemoveHandler(a) ==
  /\ mcs[clients[a]].handlers = 2
  /\ mcs' = [mcs EXCEPT ![clients[a]].handlers = 1]
  /\ UNCHANGED <<now, thr, reg, lock, store, bg>>
  /\ UNCHANGED nonMgrVars

\* The envelope a caller hands to Send, as the sink receives it.
Envelope(site, by) ==
  [eventType |-> EventType(site), status |-> Status(site), by |-> by]

\* What handleEvent of events.go sends for an event: one envelope.
RouterEnvelopes(kind) == <<Envelope(kind, "handleEvent")>>

\* What the handler GetQR added sends, part_008 lines 437-444: a status
\* envelope for Connected and for LoggedOut.
QREnvelopes(kind) ==
  IF kind \in {"Connected", "LoggedOut"}
    THEN <<Envelope(kind, "GetQR")>>
    ELSE << >>

\* The upstream emits an event on the live stream of a's session and the
\* library calls every handler added to the client, in the order they
\* were added, each to its end (Send is synchronous); handlers are not
\* added or removed meanwhile.
P_Event(a, kind) ==
  /\ Len(emitted["a1"]) + Len(emitted["a2"]) < MaxPairEvents
  /\ mcs[clients[a]].live
  /\ emitted' = [emitted EXCEPT ![a] = Append(@, kind)]
  /\ mcs' = IF kind \in {"Disconnected", "LoggedOut", "StreamReplaced"}
              THEN ClientDisconnect(HandleEvent(clients[a], kind), clients[a])
              ELSE HandleEvent(clients[a], kind)
  /\ sunk' = [sunk EXCEPT ![a] =
                @ \o RouterEnvelopes(kind)
                  \o (IF mcs[clients[a]].handlers = 2
                        THEN QREnvelopes(kind) ELSE << >>)]
  /\ UNCHANGED <<now, thr, reg, lock, store, bg>>
  /\ UNCHANGED <<rateVars, sendVars, devVars, hookVars, cfgVars, sndVars,
                 ridVars, marked>>

NextPair ==
  \/ \E a \in Accounts : QR_AddHandler(a)
  \/ \E a \in Accounts : QR_RemoveHandler(a)
  \/ \E a \in Accounts : ClientConnect(clients[a])
  \/ \E a \in Accounts, kind \in PairKinds : P_Event(a, kind)
  \/ Tick

SpecPair == InitPair /\ [][NextPair]_vars

\* C26: the sink receives one envelope for each event the upstream emitted,
\* of the event's kind and in the order of the events: for PairSuccess then
\* Connected, pair_success then status connected and nothing else.
C26_OneEnvelopePerEvent ==
  \A a \in Accounts :
    /\ Len(sunk[a]) = Len(emitted[a])
    /\ \A i \in DOMAIN sunk[a] :
         /\ sunk[a][i].eventType = EventType(emitted[a][i])
         /\ sunk[a][i].status = Status(emitted[a][i])

S_Up(a) ==
  /\ nextEv <= MaxStreamEvents
  /\ ~mcs[clients[a]].live
  /\ mcs' = [mcs EXCEPT ![clients[a]].live = TRUE]
  /\ upq' = [upq EXCEPT ![a] = Append(@, [id |-> nextEv, kind |-> "Connected",
                                           ack |-> FALSE])]
  /\ nextEv' = nextEv + 1
  /\ UNCHANGED <<now, hpc, hev, posts, inflight, outcomes, dispatched,
                 initiated>>
  /\ UNCHANGED nonHookVars

\* The remote side closes the stream of a's client: the library has a
\* Disconnected, LoggedOut or StreamReplaced event for the handlers. A
\* stream the process itself closed (Client.Disconnect) gives no event.
S_Down(a, kind) ==
  /\ nextEv <= MaxStreamEvents
  /\ mcs[clients[a]].live
  /\ mcs' = ClientDisconnect(mcs, clients[a])
  /\ upq' = [upq EXCEPT ![a] = Append(@, [id |-> nextEv, kind |-> kind,
                                           ack |-> FALSE])]
  /\ nextEv' = nextEv + 1
  /\ UNCHANGED <<now, hpc, hev, posts, inflight, outcomes, dispatched,
                 initiated>>
  /\ UNCHANGED nonHookVars

\* Registered sessions whose streams come up and go down, their events
\* handled one after another by handleEvent, beside the idle reaper.
NextLive ==
  \/ \E a \in Accounts : S_Up(a)
  \/ \E a \in Accounts,
        kind \in {"Disconnected", "LoggedOut", "StreamReplaced"} :
       S_Down(a, kind)
  \/ \E a \in Accounts :
       H_Dispatch(a) \/ H_Send(a) \/ H_Post(a) \/ H_Response(a)
  \/ Tick
  \/ R_Tick
  \/ performCleanup

SpecLive == InitPair /\ [][NextLive]_vars

\* An event telling that a's stream went down waits for its handler.
DownPending(a) ==
  \E i \in DOMAIN upq[a] :
    upq[a][i].kind \in {"Disconnected", "LoggedOut", "StreamReplaced"}

\* C30: a registered session marked connected has a client whose stream is
\* live, once the events of streams that went down have been handled; no
\* interleaving of the reaper with the handler of a Connected event leaves
\* a session marked connected on a client that was disconnected.
C30_ConnectedImpliesLive ==
  \A a \in Registered :
    (mcs[clients[a]].conn /\ ~DownPending(a)) => mcs[clients[a]].live

\* --------------------------------------------------- last activity

\* MessageHandler.SendMessage, message.go lines 237-255: the upstream send
\* of a request for a connected session succeeded; the handler stamps the
\* session it got from GetOrCreateClient.
SM_Stamp(m) ==
  /\ m \in Allocated
  /\ mcs[m].conn
  /\ mcs[m].live
  /\ mcs' = Stamp(m)
  /\ UNCHANGED <<now, thr, reg, lock, store, bg>>
  /\ UNCHANGED nonMgrVars

\* The writers and the reader of LastActivity: requests, upstream events,
\* successful sends, the clock and the idle reaper.
NextActivity ==
  \/ \E t \in ShutThreads : GetOrCreateClient(t) \/ Return(t)
  \/ \E m \in McIds : ClientConnect(m)
  \/ \E m \in McIds, kind \in StateEvents : OnEvent(m, kind)
  \/ \E m \in McIds : SM_Stamp(m)
  \/ Tick
  \/ R_Tick
  \/ performCleanup

SpecActivity == Init /\ [][NextActivity]_vars

\* C31: a session's last activity never decreases: a step that writes it
\* sets it to the current time, and the reaper and the handlers of
\* Disconnected, LoggedOut and StreamReplaced events leave it as it is.
C31_LastActivityMonotone ==
  [][ \A m \in McIds :
        /\ mcs'[m].la >= mcs[m].la
        /\ mcs'[m].la # mcs[m].la => mcs'[m].la = now
        /\ ( \/ R_Tick
             \/ performCleanup
             \/ \E kind \in {"Disconnected", "LoggedOut", "StreamReplaced"} :
                  OnEvent(m, kind) ) => mcs'[m].la = mcs[m].la
    ]_vars

\* A session was stamped after its creation, and time has passed since.
C31_Witness ==
  \E m \in Allocated : mcs[m].la > 0 /\ mcs[m].la < now

\* ------------------------------------------------ locks and I/O

\* C32: the registry lock is not held while the device store is called or
\* an upstream client is disconnected: a goroutine about to call
\* GetDeviceStore, and the reaper about to call Client.Disconnect, do not
\* hold the registry's write lock.
C32_NoIOUnderRegistryLock ==
  /\ \A t \in Threads : pc[t] = "goc_resolve" => cmWriter # t
  /\ reaper.pc = "disc" => cmWriter # Reaper

\* C33: outside insertion, a goroutine holds no registry lock when it takes
\* a session's lock: the stamp of a hit, and the reaper's read and
\* disconnect of a session, are steps of a goroutine that has released the
\* registry lock.
C33_SessionLockOutsideRegistryLock ==
  [][ /\ \A t \in Threads :
           GOC_Hit(t) => (t \notin cmReaders /\ cmWriter # t)
      /\ ((\E a \in Accounts : R_Read(a)) \/ R_Disc) => cmWriter # Reaper
    ]_vars

\* ------------------------------------------- messages and receipts

MessageIds == {"m1", "m2"}

\* events.Receipt.Type: delivered (the empty type) or read.
ReceiptTypes == {"", "read"}

\* events.Receipt.MessageIDs: one or more ids.
IdLists == {<<"m1">>, <<"m2">>, <<"m1", "m2">>}

\* The outcomes of Client.MarkRead under its 5 s deadline.
AckResults == {"ok", "error", "timeout"}

\* A read acknowledgement for every message not from the account itself,
\* group or not.
NeedsMarkReadDirect(isFromMe, isGroup) == ~isFromMe

\* handleMessageEvent, line 121: !messageInfo.IsFromMe && messageInfo.IsGroup
NeedsMarkRead(isFromMe, isGroup) == ~isFromMe /\ isGroup

\* handleMessageEvent: stamp the session, mark the message read if it has
\* to be (a failure is logged), send the inbound envelope.
P_Message(a, id, isFromMe, isGroup, result) ==
  /\ Len(emitted["a1"]) + Len(emitted["a2"]) < MaxInboundEvents
  /\ mcs[clients[a]].live
  /\ emitted' = [emitted EXCEPT ![a] =
                   Append(@, [kind |-> "Message", id |-> id,
                              isFromMe |-> isFromMe, isGroup |-> isGroup])]
  /\ mcs' = HandleEvent(clients[a], "Message")
  /\ marked' = IF NeedsMarkRead(isFromMe, isGroup)
                 THEN [marked EXCEPT ![a] =
                         Append(@, [id |-> id, result |-> result])]
                 ELSE marked
  /\ sunk' = [sunk EXCEPT ![a] =
                Append(@, [endpoint |-> Endpoint("Message"),
                           eventType |-> EventType("Message"),
                           messageIDs |-> <<id>>])]
  /\ UNCHANGED <<now, thr, reg, lock, store, bg>>
  /\ UNCHANGED <<rateVars, sendVars, devVars, hookVars, cfgVars, sndVars,
                 ridVars>>

\* handleReceiptEvent, lines 138-163: one envelope of event type receipt,
\* whose data holds the receipt's type and all its message ids.
P_Receipt(a, type, ids) ==
  /\ Len(emitted["a1"]) + Len(emitted["a2"]) < MaxInboundEvents
  /\ mcs[clients[a]].live
  /\ emitted' = [emitted EXCEPT ![a] =
                   Append(@, [kind |-> "Receipt", type |-> type,
                              ids |-> ids])]
  /\ sunk' = [sunk EXCEPT ![a] =
                Append(@, [endpoint |-> Endpoint("Receipt"),
                           eventType |-> EventType("Receipt"),
                           type |-> type, messageIDs |-> ids])]
  /\ UNCHANGED <<now, mgrVars, rateVars, sendVars, devVars, hookVars, cfgVars,
                 sndVars, ridVars, marked>>

NextInbound ==
  \/ \E a \in Accounts : ClientConnect(clients[a])
  \/ \E a \in Accounts, id \in MessageIds, isFromMe \in BOOLEAN,
        isGroup \in BOOLEAN, result \in AckResults :
       P_Message(a, id, isFromMe, isGroup, result)
  \/ \E a \in Accounts, type \in ReceiptTypes, ids \in IdLists :
       P_Receipt(a, type, ids)

SpecInbound == InitPair /\ [][NextInbound]_vars

\* The envelopes a step added to what the sink received for a.
Added(a) == SubSeq(sunk'[a], Len(sunk[a]) + 1, Len(sunk'[a]))

\* C34: a Receipt event with k message ids gives k envelopes, one per id,
\* each of event type delivery (delivered receipt) or read (read receipt)
\* and each with that one message id; the session is left as it was.
C34_EnvelopePerReceiptId ==
  [][ \A a \in Accounts, type \in ReceiptTypes, ids \in IdLists :
        P_Receipt(a, type, ids) =>
          /\ Len(Added(a)) = Len(ids)
          /\ \A i \in DOMAIN Added(a) :
               /\ Added(a)[i].eventType =
                    (IF type = "read" THEN "read" ELSE "delivery")
               /\ Added(a)[i].messageIDs = <<ids[i]>>
          /\ mcs' = mcs
    ]_vars

C35_UnhandledOnlyLogged ==
  [][ \A a \in Accounts :
        (H_Dispatch(a) /\ Head(upq[a]).kind = "Other") =>
          /\ mcs' = mcs
          /\ posts' = posts
          /\ inflight' = inflight
          /\ initiated' = initiated
          /\ hpc'[a] = "idle"
          /\ hev'[a] = NoEvent
          /\ upq'[a] = Tail(upq[a])
    ]_vars

\* The session's first event sent no webhook, and the event after it has
\* been handed to the handler and its POST has begun.
C35_Witness ==
  \E a \in Accounts :
    /\ Len(dispatched[a]) = 2
    /\ initiated[a] = <<dispatched[a][2]>>

\* ------------------------------------------- the reaper and activity

\* C37: the reaper does not disconnect an active session: a session whose
\* last activity, stamped before the reaper reads it, is later than the
\* pass's threshold is passed over with its connected flag and its client
\* as they were; the pass selects a session only when it reads it idle and
\* connected, and its disconnect writes the selected session alone.
C37_ActiveNotReaped ==
  [][ /\ \A a \in Accounts :
           (R_Read(a) /\ mcs[clients[a]].la > reaper.now - SessionIdleTTL) =>
             /\ reaper'.pc = "scan"
             /\ a \notin reaper'.todo
             /\ mcs' = mcs
      /\ (reaper.pc # "disc" /\ reaper'.pc = "disc") =>
           /\ mcs[clients[reaper'.cur]].la < reaper.now - SessionIdleTTL
           /\ mcs[clients[reaper'.cur]].conn
      /\ R_Disc =>
           \A m \in McIds : m # clients[reaper.cur] => mcs'[m] = mcs[m]
    ]_vars

\* The pass has read a session that is connected and was stamped within
\* the idle time, and passed it over: it is still connected, its stream up.
C37_Witness ==
  /\ reaper.pc = "scan"
  /\ \E a \in Registered \ reaper.todo :
       /\ mcs[clients[a]].conn
       /\ mcs[clients[a]].live
       /\ mcs[clients[a]].la > 0
       /\ mcs[clients[a]].la > reaper.now - SessionIdleTTL
       /\ mcs[clients[a]].la <= reaper.now

\* ------------------------------------------------- removed sessions

\* C38: a session that RemoveClient took out of the registry has no live
\* upstream stream, at removal or later: a handle a handler got before the
\* removal does not come to hold a connection.
C38_RemovedNotLive ==
  \A m \in Allocated :
    (\A a \in Accounts : clients[a] # m) => ~mcs[m].live

\* ------------------------------------------- duplicates after failures

\* C39: a response with duplicate = true for a key, given while no other
\* request is in the handler, follows a response of an earlier request with
\* that key whose upstream send succeeded; a request that failed after the
\* idempotency check leaves no record behind.
C39_DuplicateOnlyAfterSend ==
  \A i \in DOMAIN responses :
    (responses[i].duplicate /\ responses[i].during = {}) =>
      \E j \in 1..(i - 1) :
        /\ responses[j].key = responses[i].key
        /\ responses[j].code = 200
        /\ responses[j].body = "message"
        /\ ~responses[j].duplicate

\* ------------------------------------------------- session limit

\* cfg.MaxConcurrentSessions, with MAX_CONCURRENT_SESSIONS set to 1 (the
\* default is 10000).
MaxConcurrentSessions == 1

\* C40: the registry never holds more sessions than MaxConcurrentSessions.
C40_SessionLimit == Cardinality(Registered) <= MaxConcurrentSessions

====
